---------------------------- MODULE Spec2Model ----------------------------
(***************************************************************************)
(* Offer normalization and matching engine of the product comparison       *)
(* backend (backend/app/normalize.py, backend/app/utils.py).               *)
(*                                                                         *)
(* Strings are sequences of characters.  An ASCII character is written as  *)
(* itself ("a", "5", " ", "(").  A Hangul syllable is one character and is  *)
(* written by its romanisation in capitals of two or more letters:         *)
(*   SIN RA MYEON = 신라면      NONG SIM = 농심      SE TEU = 세트          *)
(*   BAK SEU = 박스   MUK EUM = 묶음   DAE YONG RYANG = 대용량              *)
(*   EOP SO YONG = 업소용   GAE = 개   BONG = 봉   IP = 입   PAEK = 팩      *)
(*   OT TTU GI = 오뚜기   SAM YANG = 삼양   PAL DO = 팔도   JIN = 진        *)
(*   RI TEO = 리터   GEU RAEM = 그램   KIL RO GEU RAEM = 킬로그램           *)
(*                                                                         *)
(* A score is a Python float; here it is the exact rational value times    *)
(* Scale, so that every score of the model is an integer.  An Optional     *)
(* field is None (the empty sequence) or Some(v) (the one-element          *)
(* sequence).  A rating is kept in hundredths (450 is 4.50).               *)
(***************************************************************************)
EXTENDS Integers, Sequences, FiniteSets, TLC

VARIABLES
    fuzz,        \* TRUE iff `from rapidfuzz import fuzz` succeeded
    query,       \* the search query (a string)
    brand,       \* the expected brand (a string)
    threshold,   \* select_best_offer's threshold argument
    offers,      \* the list of offers handed to the selector / ranker
    pc,          \* "ready" before the call, afterwards the function called
    ms,          \* the MatchScore returned by calculate_match_score
    best,        \* the best offer returned (Optional)
    ranked,      \* the sorted offers returned by match_offers_for_product
    warnings,    \* the warnings returned
    product_a,   \* calculate_comparison's first ProductSummary
    product_b,   \* calculate_comparison's second ProductSummary
    comparison,  \* the Comparison returned (Optional: None before the call)
    raw_name,    \* normalize_product_name's argument
    normalized_names,  \* the results of applying normalize_product_name to
                 \* raw_name, then to its own result, and so on
    rating_texts,   \* what safe_float returns for the rating elements of a
                    \* search result item, in selector order (Optional values)
    detail_page,    \* the rating value and the review count found on the
                    \* product page (Optional values)
    listing_rating, \* the rating of the listing (Optional)
    rating_pc,      \* "ready", then the function that produced the rating
    IS_LAMBDA,      \* aggregate.py's IS_LAMBDA
    USE_DYNAMODB,   \* aggregate.py's USE_DYNAMODB
    dynamodb,       \* what the DynamoDB table does when it is read
    danawa,         \* what the Danawa site does when it is scraped
    invoked,        \* the collaborators called so far, in call order
    fetched,        \* what fetch_from_sources returned (Optional)
    aggregated,     \* what aggregate_product_data returned (Optional)
    now,            \* time.time()
    cache,          \* cache.py's _cache, the InMemoryCache of the API
    rate_limiter,   \* cache.py's _rate_limiter
    requests,       \* the compare requests received, each with the position
                    \* and the locals of its handler and its response
    uuids,          \* the number of uuid4() values drawn
    key_args,       \* the arguments of two make_cache_key calls
    cache_keys,     \* the keys the two calls returned (Optional)
    threads         \* the threads calling the cache and the limiter, each
                    \* with its position, its locals and what it returned

matchVars == <<fuzz, query, brand, threshold, offers, pc, ms, best, ranked, warnings>>
compareVars == <<product_a, product_b, comparison>>
normalizeVars == <<raw_name, normalized_names>>
ratingVars == <<rating_texts, detail_page, listing_rating, rating_pc>>
environmentVars == <<IS_LAMBDA, USE_DYNAMODB>>
aggregateVars == <<dynamodb, danawa, invoked, fetched, aggregated>>
apiVars == <<now, cache, rate_limiter, requests, uuids>>
cacheVars == <<key_args, cache_keys, threads>>
vars == <<matchVars, compareVars, normalizeVars, ratingVars, environmentVars,
          aggregateVars, apiVars, cacheVars>>

None == <<>>
Some(v) == <<v>>

\* `x = v` followed by code that reads x: Bind(v, Op) is Op(x) for the value
\* x of v, which is computed once, as an assignment computes it.
Bind(v, Op(_)) == CHOOSE r \in {Op(x) : x \in {v}} : TRUE

Max(a, b) == Bind(<<a, b>>, LAMBDA p : IF p[1] >= p[2] THEN p[1] ELSE p[2])
Min(a, b) == Bind(<<a, b>>, LAMBDA p : IF p[1] <= p[2] THEN p[1] ELSE p[2])

-----------------------------------------------------------------------------
(* Characters and the str methods the code uses.                           *)

Digits == {"0", "1", "2", "3", "4", "5", "6", "7", "8", "9"}
IsDigit(c) == c \in Digits                         \* \d
IsSpace(c) == c = " "                              \* \s
IsWord(c) == c \notin {" ", "(", ")", "[", "]", "-", "/", ",", "."}   \* \w

\* str.lower(): a capital becomes its small letter; a Hangul syllable has no
\* case.  "MU" is the Greek capital U+039C and "mu" the small U+03BC; the
\* micro sign U+00B5 ("micro") is a small letter of its own.
Capitals ==
    <<"A", "B", "C", "D", "E", "F", "G", "H", "I", "J", "K", "L", "M",
      "N", "O", "P", "Q", "R", "S", "T", "U", "V", "W", "X", "Y", "Z", "MU">>
Smalls ==
    <<"a", "b", "c", "d", "e", "f", "g", "h", "i", "j", "k", "l", "m",
      "n", "o", "p", "q", "r", "s", "t", "u", "v", "w", "x", "y", "z", "mu">>
LowerTable == [c \in {Capitals[k] : k \in 1..Len(Capitals)} |->
                  Smalls[CHOOSE k \in 1..Len(Capitals) : Capitals[k] = c]]
LowerChar(c) == IF c \in DOMAIN LowerTable THEN LowerTable[c] ELSE c
lower(s) == Bind(s, LAMBDA t : [i \in 1..Len(t) |-> LowerChar(t[i])])

\* str.upper(): the capital of the micro sign is the Greek capital mu
UpperChar(c) ==
    IF c = "micro" THEN "MU"
    ELSE IF \E k \in 1..Len(Smalls) : Smalls[k] = c
         THEN Capitals[CHOOSE k \in 1..Len(Smalls) : Smalls[k] = c]
         ELSE c

\* s[i:] of the string s, with the 1-based index i
Drop(s, i) == SubSeq(s, i, Len(s))

\* s[i:].startswith(p), with the 1-based index i
StartsWithAt(s, i, p) ==
    /\ i + Len(p) - 1 <= Len(s)
    /\ \A k \in 1..Len(p) : s[i + k - 1] = p[k]

\* s[i:].lower().startswith(p), for a lower-case p
LowerStartsWithAt(s, i, p) ==
    /\ i + Len(p) - 1 <= Len(s)
    /\ \A k \in 1..Len(p) : LowerChar(s[i + k - 1]) = p[k]

\* `p in s` of two strings
Contains(s, p) ==
    \E t \in {s}, u \in {p} : \E i \in 1..(Len(t) + 1) : StartsWithAt(t, i, u)

\* the length of the longest run of characters of the class at s[i:]
RECURSIVE DigitRun(_, _)
DigitRun(s, i) == IF i <= Len(s) /\ IsDigit(s[i]) THEN 1 + DigitRun(s, i + 1) ELSE 0
RECURSIVE SpaceRun(_, _)
SpaceRun(s, i) == IF i <= Len(s) /\ IsSpace(s[i]) THEN 1 + SpaceRun(s, i + 1) ELSE 0

\* \b between s[i-1] and s[i]
WordAt(s, i) == i >= 1 /\ i <= Len(s) /\ IsWord(s[i])
Boundary(s, i) == WordAt(s, i - 1) # WordAt(s, i)

-----------------------------------------------------------------------------
(* The regular expressions of normalize_product_name and                   *)
(* clean_product_name.  PatLen(pat, s, i) is the length of the match of    *)
(* the pattern that starts at s[i], 0 when there is none (no pattern of    *)
(* the code matches the empty string).                                     *)

brand_patterns ==
    << <<"NONG", "SIM">>, <<"OT", "TTU", "GI">>, <<"SAM", "YANG">>, <<"PAL", "DO">>,
       <<"n", "o", "n", "g", "s", "h", "i", "m">>, <<"o", "t", "t", "o", "g", "i">>,
       <<"s", "a", "m", "y", "a", "n", "g">>, <<"p", "a", "l", "d", "o">> >>

weight_units ==
    << <<"g">>, <<"k", "g">>, <<"m", "l">>, <<"l">>, <<"RI", "TEO">>,
       <<"GEU", "RAEM">>, <<"KIL", "RO", "GEU", "RAEM">> >>

count_units ==
    << <<"GAE">>, <<"BONG">>, <<"IP">>, <<"PAEK">>, <<"BAK", "SEU">>, <<"x">> >>

\* r'\bWORD\b', re.IGNORECASE
WordPatLen(word, s, i) ==
    IF /\ LowerStartsWithAt(s, i, word)
       /\ Boundary(s, i)
       /\ Boundary(s, i + Len(word))
    THEN Len(word) ELSE 0

\* r'\d+\s*(u1|u2|...)\b', re.IGNORECASE.  \d+ and \s* are greedy and no unit
\* starts with a digit or a space, so they take the whole run; the
\* alternatives are tried in order and the first one followed by \b wins.
UnitPatLen(units, s, i) ==
    Bind(DigitRun(s, i), LAMBDA d :
    Bind(SpaceRun(s, i + d), LAMBDA w :
    Bind({k \in 1..Len(units) :
             /\ LowerStartsWithAt(s, i + d + w, units[k])
             /\ Boundary(s, i + d + w + Len(units[k]))}, LAMBDA ok :
        IF d = 0 \/ ok = {} THEN 0
        ELSE d + w + Len(units[CHOOSE k \in ok : \A m \in ok : k <= m]))))

\* r'x\s*\d+', re.IGNORECASE
MultPatLen(s, i) ==
    IF i <= Len(s) /\ LowerChar(s[i]) = "x"
    THEN Bind(SpaceRun(s, i + 1), LAMBDA w :
         Bind(DigitRun(s, i + 1 + w), LAMBDA d :
             IF d = 0 THEN 0 ELSE 1 + w + d))
    ELSE 0

\* r'\([^)]*\)' and r'\[[^\]]*\]'
DelimPatLen(open, close, s, i) ==
    IF i <= Len(s) /\ s[i] = open /\ \E j \in (i + 1)..Len(s) : s[j] = close
    THEN LET j == CHOOSE j \in (i + 1)..Len(s) :
                      /\ s[j] = close
                      /\ \A m \in (i + 1)..(j - 1) : s[m] # close
         IN  j - i + 1
    ELSE 0

PatLen(pat, s, i) ==
    CASE pat.kind = "word"    -> WordPatLen(pat.word, s, i)
      [] pat.kind = "unit"    -> UnitPatLen(pat.units, s, i)
      [] pat.kind = "mult"    -> MultPatLen(s, i)
      [] pat.kind = "delim"   -> DelimPatLen(pat.open, pat.close, s, i)
      [] pat.kind = "spaces"  -> SpaceRun(s, i)

\* re.sub(pat, repl, s): the matches are found left to right in s, without
\* overlap, and each is replaced by repl.
RECURSIVE SubFrom(_, _, _, _)
SubFrom(pat, repl, s, i) ==
    IF i > Len(s) THEN <<>>
    ELSE Bind(PatLen(pat, s, i), LAMBDA n :
             IF n > 0 THEN repl \o SubFrom(pat, repl, s, i + n)
             ELSE <<s[i]>> \o SubFrom(pat, repl, s, i + 1))
re_sub(pat, repl, s) == Bind(s, LAMBDA t : SubFrom(pat, repl, t, 1))

\* str.strip()
RECURSIVE strip(_)
strip(s) ==
    Bind(s, LAMBDA t :
        IF t = <<>> THEN t
        ELSE IF IsSpace(t[1]) THEN strip(Tail(t))
        ELSE IF IsSpace(t[Len(t)]) THEN strip(SubSeq(t, 1, Len(t) - 1))
        ELSE t)

\* re.sub(r'\s+', ' ', name).strip()
collapse_whitespace(s) == strip(re_sub([kind |-> "spaces"], <<" ">>, s))

clean_product_name(name) ==
    LET n1 == re_sub([kind |-> "unit", units |-> weight_units], <<>>, name)
        n2 == re_sub([kind |-> "unit", units |-> count_units], <<>>, n1)
        n3 == re_sub([kind |-> "mult"], <<>>, n2)
        n4 == re_sub([kind |-> "delim", open |-> "(", close |-> ")"], <<>>, n3)
        n5 == re_sub([kind |-> "delim", open |-> "[", close |-> "]"], <<>>, n4)
    IN  collapse_whitespace(n5)

\* the loop `for pattern in brand_patterns: name = re.sub(pattern, '', name)`
RECURSIVE remove_brands(_, _)
remove_brands(name, k) ==
    IF k > Len(brand_patterns) THEN name
    ELSE remove_brands(re_sub([kind |-> "word", word |-> brand_patterns[k]], <<>>, name), k + 1)

normalize_product_name(name) ==
    LET n1 == lower(name)
        n2 == remove_brands(n1, 1)
        n3 == clean_product_name(n2)
        n4 == lower(n3)
    IN  collapse_whitespace(n4)

-----------------------------------------------------------------------------
(* The inputs the model draws from.                                        *)

SINRAMYEON == <<"SIN", "RA", "MYEON">>
SET == <<"SE", "TEU">>
BOX == <<"BAK", "SEU">>
BUNDLE == <<"MUK", "EUM">>
NONGSIM_SINRAMYEON == <<"NONG", "SIM", " ">> \o SINRAMYEON \o <<" ", "5", "GAE", "IP">>

Queries ==
    { SINRAMYEON,                                  \* 신라면
      SINRAMYEON \o <<" ">> \o SET,                 \* 신라면 세트
      SINRAMYEON \o <<" ">> \o BUNDLE,              \* 신라면 묶음
      <<"SE">>,                                    \* 세
      <<"5", "GAE">>,                              \* 5개 (normalizes to "")
      <<>> }

Brands == { <<"NONG", "SIM">>, <<"N", "o", "n", "g">>, <<>> }

Titles ==
    { NONGSIM_SINRAMYEON,                                              \* 농심 신라면 5개입
      <<"N", "O", "N", "G", " ">> \o SINRAMYEON,                        \* NONG 신라면
      SINRAMYEON \o <<" ">> \o SET,                                     \* 신라면 세트
      SINRAMYEON \o SET,                                               \* 신라면세트
      SINRAMYEON \o <<" ">> \o BUNDLE,                                  \* 신라면 묶음
      SET,                                                             \* 세트
      <<"1", "g", " ">> \o BOX,                                         \* 1g 박스
      <<"OT", "TTU", "GI", " ", "JIN", "RA", "MYEON">>,                \* 오뚜기 진라면
      <<"l", "a", "m", "e", "n">>,                                     \* lamen
      SINRAMYEON \o <<" ">>,                                            \* "신라면 "
      SINRAMYEON,                                                      \* 신라면
      <<>> }

-----------------------------------------------------------------------------
(* Offers.                                                                 *)

Offer(title, url, price, rating, reviews, image) ==
    [source |-> "danawa", title |-> title, url |-> url, price_krw |-> price,
     rating |-> rating, review_count |-> reviews, image_url |-> image,
     fetched_at |-> "t0"]

\* every combination of the fields the scorer reads
OfferValues ==
    {Offer(t, "u0", p, r, c, i) :
        t \in Titles,
        p \in {None, Some(0), Some(4500)},
        r \in {None, Some(0), Some(450)},
        c \in {None, Some(0), Some(1000)},
        i \in {None, Some(""), Some("img")}}

\* the listings the sources return
OfferPool ==
    { Offer(NONGSIM_SINRAMYEON, "u1", Some(4500), Some(450), Some(1000), Some("img")),
      Offer(NONGSIM_SINRAMYEON, "u2", Some(4500), Some(450), Some(1000), Some("img")),
      Offer(SINRAMYEON \o <<" ">> \o SET, "u3", Some(35000), Some(470), Some(200), None),
      Offer(<<"OT", "TTU", "GI", " ", "JIN", "RA", "MYEON">>, "u4", Some(4200), None, None, None),
      Offer(<<>>, "u5", Some(0), None, Some(0), Some("")) }

-----------------------------------------------------------------------------
(* Scores.  The normalized strings of the model have at most 7            *)
(* characters, so every denominator of a similarity divides Scale.         *)

SetMax(S) == Bind(S, LAMBDA T : CHOOSE x \in T : \A y \in T : y <= x)

\* the least common multiple of 1..14
Scale == 8 * 9 * 5 * 7 * 11 * 13

\* a / b of two integers where b divides a (no value otherwise)
ExactDiv(a, b) == CHOOSE q \in {a \div b} : q * b = a

\* f"{x:.1f}": the float x (given times Scale) in tenths, round-half-even
Fmt1(x) ==
    LET q == (10 * x) \div Scale
        r == (10 * x) % Scale
    IN  IF 2 * r > Scale THEN q + 1
        ELSE IF 2 * r = Scale THEN q + (q % 2)
        ELSE q

-----------------------------------------------------------------------------
(* rapidfuzz: fuzz.ratio is the normalized Indel similarity                *)
(* 100 * 2 * LCS(a, b) / (len(a) + len(b)), 100 for two empty strings;     *)
(* fuzz.partial_ratio is the best fuzz.ratio of the shorter string against *)
(* the windows of the longer one.                                          *)

\* one row of the longest-common-subsequence table
RECURSIVE LcsRow(_, _, _, _, _)
LcsRow(c, b, prev, j, left) ==
    IF j > Len(b) THEN <<>>
    ELSE LET diag == IF j = 1 THEN 0 ELSE prev[j - 1]
         IN  Bind(IF c = b[j] THEN diag + 1 ELSE Max(prev[j], left),
                  LAMBDA v : <<v>> \o LcsRow(c, b, prev, j + 1, v))
RECURSIVE LcsFrom(_, _, _, _)
LcsFrom(a, b, i, prev) ==
    IF i > Len(a) THEN (IF Len(b) = 0 THEN 0 ELSE prev[Len(b)])
    ELSE Bind(LcsRow(a[i], b, prev, 1, 0), LAMBDA row : LcsFrom(a, b, i + 1, row))
LCS(a, b) == Bind(<<a, b>>, LAMBDA p : LcsFrom(p[1], p[2], 1, [j \in 1..Len(p[2]) |-> 0]))

fuzz_ratio(a, b) ==
    IF Len(a) + Len(b) = 0 THEN 100 * Scale
    ELSE 200 * LCS(a, b) * ExactDiv(Scale, Len(a) + Len(b))

\* the windows of `longer` that _partial_ratio_impl scores: the prefixes
\* shorter than n, the substrings of length n, the suffixes shorter than n
Windows(longer, n) ==
    {SubSeq(longer, a, b) : <<a, b>> \in
        {w \in (1..Len(longer)) \X (1..Len(longer)) :
            /\ w[1] <= w[2]
            /\ \/ w[2] - w[1] + 1 = n
               \/ w[1] = 1 /\ w[2] < n
               \/ w[2] = Len(longer) /\ w[2] - w[1] + 1 < n}}

partial_ratio_impl(shorter, longer) ==
    IF Len(shorter) = 0 THEN 0
    ELSE SetMax({fuzz_ratio(shorter, w) : w \in Windows(longer, Len(shorter))})

fuzz_partial_ratio(a, b) ==
    IF Len(a) = 0 /\ Len(b) = 0 THEN 100 * Scale
    ELSE IF Len(a) < Len(b) THEN partial_ratio_impl(a, b)
    ELSE IF Len(b) < Len(a) THEN partial_ratio_impl(b, a)
    ELSE Max(partial_ratio_impl(a, b), partial_ratio_impl(b, a))

\* str.split(): the words of s as a set
RECURSIVE WordsFrom(_, _)
WordsFrom(s, i) ==
    IF i > Len(s) THEN {}
    ELSE IF IsSpace(s[i]) THEN WordsFrom(s, i + 1)
    ELSE Bind(CHOOSE n \in 1..(Len(s) - i + 1) :
                  /\ \A k \in i..(i + n - 1) : ~IsSpace(s[k])
                  /\ (i + n > Len(s) \/ IsSpace(s[i + n])),
              LAMBDA n : {SubSeq(s, i, i + n - 1)} \cup WordsFrom(s, i + n))
split_words(s) == Bind(s, LAMBDA t : WordsFrom(t, 1))

-----------------------------------------------------------------------------
(* calculate_match_score.  Each signal yields the points it adds to the    *)
(* local variable `score` and the reasons it appends.                      *)

Signal(pts, reasons) == [pts |-> pts, reasons |-> reasons]
NoSignal == Signal(0, <<>>)

\* Python truthiness of an Optional[int] and of an Optional[str]
TruthyInt(x) == x # None /\ x[1] # 0
TruthyStr(x) == x # None /\ x[1] # ""

\* a fallback that scores only a query whose every word is in the title
similarity_signal_all_or_nothing(fz, q, title) ==
    Bind(normalize_product_name(q), LAMBDA normalized_query :
    Bind(normalize_product_name(title), LAMBDA normalized_title :
        IF fz
        THEN LET ratio == fuzz_ratio(normalized_query, normalized_title)
                 partial_ratio == fuzz_partial_ratio(normalized_query, normalized_title)
             IN  Bind(Max(ratio, partial_ratio), LAMBDA similarity :
                     Signal(ExactDiv(similarity, 2),
                            <<[text |-> "String similarity", pct |-> Fmt1(similarity)]>>))
        ELSE Bind(split_words(normalized_query), LAMBDA query_words :
             Bind(split_words(normalized_title), LAMBDA title_words :
                 IF query_words # {}
                 THEN IF query_words \subseteq title_words
                      THEN Signal(50 * Scale,
                                  <<[text |-> "Word overlap", pct |-> Fmt1(100 * Scale)]>>)
                      ELSE Signal(0, <<[text |-> "Word overlap", pct |-> Fmt1(0)]>>)
                 ELSE NoSignal))))

\* 1. String similarity (up to 50 points)
similarity_signal(fz, q, title) ==
    Bind(normalize_product_name(q), LAMBDA normalized_query :
    Bind(normalize_product_name(title), LAMBDA normalized_title :
        IF fz
        THEN LET ratio == fuzz_ratio(normalized_query, normalized_title)
                 partial_ratio == fuzz_partial_ratio(normalized_query, normalized_title)
             IN  Bind(Max(ratio, partial_ratio), LAMBDA similarity :
                     Signal(ExactDiv(similarity, 2),
                            <<[text |-> "String similarity", pct |-> Fmt1(similarity)]>>))
        ELSE Bind(split_words(normalized_query), LAMBDA query_words :
             Bind(split_words(normalized_title), LAMBDA title_words :
                 LET n == Cardinality(query_words)
                     k == Cardinality(query_words \cap title_words)
                 IN  IF query_words # {}
                     THEN Signal(50 * k * ExactDiv(Scale, n),
                                 <<[text |-> "Word overlap",
                                    pct |-> Fmt1(100 * k * ExactDiv(Scale, n))]>>)
                     ELSE NoSignal))))

\* similarity_signal, computed once for the strings of the model
SimilarityTable ==
    [fz \in BOOLEAN, q \in Queries, t \in Titles |-> similarity_signal(fz, q, t)]
similarity_of(fz, q, title) ==
    IF q \in Queries /\ title \in Titles
    THEN SimilarityTable[fz, q, title]
    ELSE similarity_signal(fz, q, title)

\* 2. Brand match (up to 20 points)
brand_signal(b, title) ==
    IF Contains(lower(title), lower(b))
    THEN Signal(20 * Scale, <<[text |-> "Brand found in title", brand |-> b]>>)
    ELSE NoSignal

\* 3. Has price (5 points)
price_signal(offer) ==
    IF TruthyInt(offer.price_krw)
    THEN Signal(5 * Scale, <<[text |-> "Has price"]>>)
    ELSE NoSignal

\* 4. Has rating (5 points)
rating_signal(offer) ==
    IF offer.rating # None
    THEN Signal(5 * Scale, <<[text |-> "Has rating"]>>)
    ELSE NoSignal

\* a review signal that lists its reason for a review count of 0
review_signal_listing_zero(offer) ==
    IF offer.review_count # None
    THEN Signal(IF offer.review_count[1] > 0 THEN 10 * Scale ELSE 0,
                <<[text |-> "Has reviews", count |-> offer.review_count[1]]>>)
    ELSE NoSignal

\* 5. Has reviews (10 points)
review_signal(offer) ==
    IF TruthyInt(offer.review_count) /\ offer.review_count[1] > 0
    THEN Signal(10 * Scale, <<[text |-> "Has reviews", count |-> offer.review_count[1]]>>)
    ELSE NoSignal

\* 6. Has image (5 points)
image_signal(offer) ==
    IF TruthyStr(offer.image_url)
    THEN Signal(5 * Scale, <<[text |-> "Has image"]>>)
    ELSE NoSignal

\* 7. Penalty for likely wrong products
wrong_keywords ==
    << SET, BOX, BUNDLE, <<"DAE", "YONG", "RYANG">>, <<"EOP", "SO", "YONG">> >>

query_exempts_penalty(q) == Contains(lower(q), SET) \/ Contains(lower(q), BOX)

\* a penalty of 10 in place of 15
penalty_signal_of_10(q, title) ==
    IF /\ \E k \in 1..Len(wrong_keywords) : Contains(lower(title), wrong_keywords[k])
       /\ ~query_exempts_penalty(q)
    THEN Signal(-10 * Scale, <<[text |-> "Penalty: might be bulk/set product"]>>)
    ELSE NoSignal

penalty_signal(q, title) ==
    IF /\ \E k \in 1..Len(wrong_keywords) : Contains(lower(title), wrong_keywords[k])
       /\ ~query_exempts_penalty(q)
    THEN Signal(-15 * Scale, <<[text |-> "Penalty: might be bulk/set product"]>>)
    ELSE NoSignal

\* the signals in the order the function evaluates them
match_signals(fz, q, b, offer) ==
    << similarity_of(fz, q, offer.title),
       brand_signal(b, offer.title),
       price_signal(offer),
       rating_signal(offer),
       review_signal(offer),
       image_signal(offer),
       penalty_signal(q, offer.title) >>

RECURSIVE SumPts(_, _)
SumPts(sigs, k) == IF k > Len(sigs) THEN 0 ELSE sigs[k].pts + SumPts(sigs, k + 1)
RECURSIVE AllReasons(_, _)
AllReasons(sigs, k) ==
    IF k > Len(sigs) THEN <<>> ELSE sigs[k].reasons \o AllReasons(sigs, k + 1)

\* a scorer that forgets the clamp
clamp_score_missing(score) == score
\* the final clamp, max(0, score)
clamp_score(score) == Max(0, score)

match_score(fz, q, b, offer) ==
    Bind(match_signals(fz, q, b, offer), LAMBDA sigs :
        [offer |-> offer,
         score |-> clamp_score(SumPts(sigs, 1)),
         reasons |-> AllReasons(sigs, 1)])

\* match_score, computed once for the listings of OfferPool
PoolScoreTable ==
    [fz \in BOOLEAN, q \in Queries, b \in Brands, o \in OfferPool |-> match_score(fz, q, b, o)]

\* the call calculate_match_score(query, brand, offer); the module global
\* `fuzz` is read from the state
calculate_match_score(q, b, offer) ==
    IF q \in Queries /\ b \in Brands /\ offer \in OfferPool
    THEN PoolScoreTable[fuzz, q, b, offer]
    ELSE match_score(fuzz, q, b, offer)

-----------------------------------------------------------------------------
(* select_best_offer and match_offers_for_product.                         *)

score_all(offer_list, q, b) ==
    [i \in 1..Len(offer_list) |-> calculate_match_score(q, b, offer_list[i])]

\* an unstable sort: an element goes in front of the elements of equal score
insert_by_score_unstable(sorted, x) ==
    LET k == Cardinality({i \in 1..Len(sorted) : sorted[i].score > x.score})
    IN  SubSeq(sorted, 1, k) \o <<x>> \o SubSeq(sorted, k + 1, Len(sorted))
\* no sort at all: the listings stay in arrival order
insert_by_arrival(sorted, x) == Append(sorted, x)
\* list.sort(key=lambda x: x.score, reverse=True): Python's sort is stable,
\* also with reverse=True, so an element goes behind the elements already
\* placed whose score is greater or equal.
insert_by_score(sorted, x) ==
    LET k == Cardinality({i \in 1..Len(sorted) : sorted[i].score >= x.score})
    IN  SubSeq(sorted, 1, k) \o <<x>> \o SubSeq(sorted, k + 1, Len(sorted))
RECURSIVE sort_from(_, _, _)
sort_from(scored, i, sorted) ==
    IF i > Len(scored) THEN sorted
    ELSE Bind(insert_by_score(sorted, scored[i]), LAMBDA s : sort_from(scored, i + 1, s))
sort_by_score(scored) == Bind(scored, LAMBDA s : sort_from(s, 1, <<>>))

DefaultThreshold == 30

low_confidence(best_ms, th) == best_ms.score < th * Scale

\* runner_up.score > best.score * 0.9
\* the comparison with >= in place of >
close_alternative_inclusive(runner_up, best_ms) == 10 * runner_up.score >= 9 * best_ms.score
close_alternative(runner_up, best_ms) == 10 * runner_up.score > 9 * best_ms.score

\* a selector that returns no offer when the best score is below the threshold
select_best_offer_rejecting_low(offer_list, q, b, th) ==
    IF offer_list = <<>>
    THEN [best |-> None, warnings |-> <<[text |-> "No offers found"]>>]
    ELSE Bind(sort_by_score(score_all(offer_list, q, b)), LAMBDA scored :
             IF low_confidence(scored[1], th)
             THEN [best |-> None,
                   warnings |-> <<[text |-> "Best match score is below threshold",
                                   score |-> Fmt1(scored[1].score), threshold |-> th]>>]
             ELSE [best |-> Some(scored[1].offer), warnings |-> <<>>])

select_best_offer(offer_list, q, b, th) ==
    IF offer_list = <<>>
    THEN [best |-> None, warnings |-> <<[text |-> "No offers found"]>>]
    ELSE Bind(sort_by_score(score_all(offer_list, q, b)), LAMBDA scored :
             LET w1 == IF low_confidence(scored[1], th)
                       THEN <<[text |-> "Best match score is below threshold",
                               score |-> Fmt1(scored[1].score), threshold |-> th]>>
                       ELSE <<>>
                 w2 == IF Len(scored) > 1 /\ close_alternative(scored[2], scored[1])
                       THEN <<[text |-> "Alternative candidate",
                               title |-> scored[2].offer.title,
                               score |-> Fmt1(scored[2].score)]>>
                       ELSE <<>>
             IN  [best |-> Some(scored[1].offer), warnings |-> w1 \o w2])

\* a ranker without its own empty-input return
match_offers_for_product_unguarded(offer_list, q, b) ==
    Bind(sort_by_score(score_all(offer_list, q, b)), LAMBDA scored :
    Bind(select_best_offer(offer_list, q, b, DefaultThreshold), LAMBDA sel :
        [best |-> sel.best,
         sorted |-> [i \in 1..Len(scored) |-> scored[i].offer],
         warnings |-> sel.warnings]))

match_offers_for_product(offer_list, q, b) ==
    IF offer_list = <<>>
    THEN [best |-> None, sorted |-> <<>>,
          warnings |-> <<[text |-> "No offers available"]>>]
    ELSE Bind(sort_by_score(score_all(offer_list, q, b)), LAMBDA scored :
         Bind(select_best_offer(offer_list, q, b, DefaultThreshold), LAMBDA sel :
             [best |-> sel.best,
              sorted |-> [i \in 1..Len(scored) |-> scored[i].offer],
              warnings |-> sel.warnings]))

MaxOffers == 3

RECURSIVE ListsUpTo(_, _)
ListsUpTo(S, n) ==
    IF n = 0 THEN {<<>>}
    ELSE LET shorter == ListsUpTo(S, n - 1)
         IN  shorter \cup {Append(l, x) : l \in {m \in shorter : Len(m) = n - 1}, x \in S}

Thresholds == {DefaultThreshold, 60}

-----------------------------------------------------------------------------
(* The state machine: the inputs are drawn by Init, each action is one     *)
(* call of a function of normalize.py.                                     *)

\* the state of the functions that are not called
CompareIdle == product_a = <<>> /\ product_b = <<>> /\ comparison = <<>>
NormalizeIdle == raw_name = <<>> /\ normalized_names = <<>>
RatingIdle ==
    /\ rating_texts = <<>> /\ detail_page = <<>>
    /\ listing_rating = <<>> /\ rating_pc = "idle"
EnvironmentIdle == IS_LAMBDA = FALSE /\ USE_DYNAMODB = FALSE
AggregateIdle ==
    /\ dynamodb = <<>> /\ danawa = <<>> /\ invoked = <<>>
    /\ fetched = <<>> /\ aggregated = <<>>
ApiIdle ==
    /\ now = 0 /\ cache = <<>> /\ rate_limiter = <<>>
    /\ requests = <<>> /\ uuids = 0
CacheIdle == key_args = <<>> /\ cache_keys = <<>> /\ threads = <<>>
serviceVars == <<environmentVars, aggregateVars, apiVars, cacheVars>>
ServiceIdle == EnvironmentIdle /\ AggregateIdle /\ ApiIdle /\ CacheIdle
restVars == <<compareVars, normalizeVars, ratingVars, serviceVars>>
RestIdle == CompareIdle /\ NormalizeIdle /\ RatingIdle /\ ServiceIdle

InitCommon ==
    /\ RestIdle
    /\ fuzz \in BOOLEAN
    /\ threshold = DefaultThreshold
    /\ pc = "ready"
    /\ ms = None
    /\ best = None
    /\ ranked = <<>>
    /\ warnings = <<>>

\* the merged listings of a request
Init ==
    /\ InitCommon
    /\ query \in {SINRAMYEON, SINRAMYEON \o <<" ">> \o SET, <<"SE">>, <<>>}
    /\ brand \in {<<"NONG", "SIM">>, <<>>}
    /\ offers \in ListsUpTo(OfferPool, MaxOffers)

\* one listing, of any shape
InitScore ==
    /\ InitCommon
    /\ query \in Queries
    /\ brand \in Brands
    /\ offers \in {<<o>> : o \in OfferValues}

CalculateMatchScore(i) ==
    /\ pc = "ready"
    /\ ms' = Some(calculate_match_score(query, brand, offers[i]))
    /\ pc' = "calculate_match_score"
    /\ UNCHANGED <<fuzz, query, brand, threshold, offers, best, ranked, warnings>>
    /\ UNCHANGED restVars

SelectBestOffer(th) ==
    /\ pc = "ready"
    /\ \E r \in {select_best_offer(offers, query, brand, th)} :
           /\ best' = r.best
           /\ warnings' = r.warnings
    /\ threshold' = th
    /\ pc' = "select_best_offer"
    /\ UNCHANGED <<fuzz, query, brand, offers, ms, ranked>>
    /\ UNCHANGED restVars

MatchOffersForProduct ==
    /\ pc = "ready"
    /\ \E r \in {match_offers_for_product(offers, query, brand)} :
           /\ best' = r.best
           /\ ranked' = r.sorted
           /\ warnings' = r.warnings
    /\ pc' = "match_offers_for_product"
    /\ UNCHANGED <<fuzz, query, brand, threshold, offers, ms>>
    /\ UNCHANGED restVars

NextScore == \E i \in 1..Len(offers) : CalculateMatchScore(i)

Next ==
    \/ NextScore
    \/ \E th \in Thresholds : SelectBestOffer(th)
    \/ MatchOffersForProduct

Spec == Init /\ [][Next]_vars
SpecScore == InitScore /\ [][NextScore]_vars

-----------------------------------------------------------------------------
(* Properties of the scorer (checked under SpecScore).                     *)

Scored == pc = "calculate_match_score"
HasReason(reasons, text) == \E k \in 1..Len(reasons) : reasons[k].text = text
PenaltyReason == "Penalty: might be bulk/set product"

\* the sum of the positive signals (1 to 6) of a listing
PositiveSum(o) == SumPts(SubSeq(match_signals(fuzz, query, brand, o), 1, 6), 1)

HasBulkKeyword(s) == \E k \in 1..Len(wrong_keywords) : Contains(s, wrong_keywords[k])

\* C1: the score returned by calculate_match_score is never negative and
\* never above 100.
C1_ScoreInRange ==
    Scored => (ms[1].score >= 0 /\ ms[1].score <= 100 * Scale)

\* C1 witness: the penalty exceeds the positive signals and the score is 0.
C1_Witness ==
    /\ Scored
    /\ HasReason(ms[1].reasons, PenaltyReason)
    /\ PositiveSum(ms[1].offer) < 15 * Scale
    /\ ms[1].score = 0

\* C6 (as claimed): the penalty is applied exactly when the title contains a
\* bulk keyword and the query contains none of the five bulk keywords.
C6_PenaltyIffQueryHasNoBulkKeyword ==
    Scored =>
        LET applied == /\ HasBulkKeyword(ms[1].offer.title)
                       /\ ~HasBulkKeyword(query)
        IN  /\ HasReason(ms[1].reasons, PenaltyReason) <=> applied
            /\ penalty_signal(query, ms[1].offer.title).pts = (IF applied THEN -15 * Scale ELSE 0)

\* C8 (as claimed): the price signal adds 5 points and "Has price" exactly
\* when the price is non-null (0 included), the rating signal adds 5 exactly
\* when the rating is non-null, the review signal adds 10 exactly when the
\* review count is present and > 0.
C8_PresenceSignals ==
    Scored =>
        LET o == ms[1].offer
            price == o.price_krw # None
            rating == o.rating # None
            reviews == o.review_count # None /\ o.review_count[1] > 0
        IN  /\ HasReason(ms[1].reasons, "Has price") <=> price
            /\ price_signal(o).pts = (IF price THEN 5 * Scale ELSE 0)
            /\ HasReason(ms[1].reasons, "Has rating") <=> rating
            /\ rating_signal(o).pts = (IF rating THEN 5 * Scale ELSE 0)
            /\ HasReason(ms[1].reasons, "Has reviews") <=> reviews
            /\ review_signal(o).pts = (IF reviews THEN 10 * Scale ELSE 0)


\* str.replace(p, ""): s with every occurrence of p removed, left to right
RECURSIVE RemoveAllFrom(_, _, _)
RemoveAllFrom(s, p, i) ==
    IF i > Len(s) THEN <<>>
    ELSE IF StartsWithAt(s, i, p) THEN RemoveAllFrom(s, p, i + Len(p))
    ELSE <<s[i]>> \o RemoveAllFrom(s, p, i + 1)
WithoutSet(o) == [o EXCEPT !.title = RemoveAllFrom(o.title, SET, 1)]

\* C7 (as claimed): for a query without a bulk keyword, a listing whose
\* title contains "세트" scores strictly less than the same listing with
\* "세트" removed from its title.
C7_StrictlyLessThanWithoutSet ==
    (Scored /\ ~HasBulkKeyword(query) /\ Contains(ms[1].offer.title, SET)) =>
        ms[1].score < calculate_match_score(query, brand, WithoutSet(ms[1].offer)).score

\* C7 (amended): for a query without a bulk keyword, a listing whose title
\* contains "세트" scores max(0, P - 15), where P is the sum of its own
\* positive signals: strictly less than P when P > 0, and 0 when P <= 15.
C7_PenaltyThenClamp ==
    (Scored /\ ~HasBulkKeyword(query) /\ Contains(ms[1].offer.title, SET)) =>
        LET P == PositiveSum(ms[1].offer)
        IN  /\ ms[1].score = Max(0, P - 15 * Scale)
            /\ P > 0 => ms[1].score < P
            /\ P <= 15 * Scale => ms[1].score = 0

\* C7 witness: positive signals of at most 15 are clamped to a score of 0,
\* which is also the score of the listing without "세트".
C7_Witness ==
    /\ Scored /\ ~HasBulkKeyword(query) /\ Contains(ms[1].offer.title, SET)
    /\ HasReason(ms[1].reasons, PenaltyReason)
    /\ PositiveSum(ms[1].offer) <= 15 * Scale
    /\ ms[1].score = 0
    /\ calculate_match_score(query, brand, WithoutSet(ms[1].offer)).score = 0

\* the place of a reason in the order of evaluation
ReasonRank(r) ==
    CASE r.text \in {"String similarity", "Word overlap"} -> 1
      [] r.text = "Brand found in title" -> 2
      [] r.text = "Has price" -> 3
      [] r.text = "Has rating" -> 4
      [] r.text = "Has reviews" -> 5
      [] r.text = "Has image" -> 6
      [] r.text = PenaltyReason -> 7

InEvaluationOrder(reasons) ==
    \A j, k \in 1..Len(reasons) : j < k => ReasonRank(reasons[j]) < ReasonRank(reasons[k])

ReasonOfSignalListed(reasons, n) == \E k \in 1..Len(reasons) : ReasonRank(reasons[k]) = n

\* C9 (as claimed): the reasons are a subsequence of the evaluation order and
\* a signal's reason is listed if and only if the signal changed the score.
C9_ReasonIffScoreChanged ==
    Scored =>
        LET sigs == match_signals(fuzz, query, brand, ms[1].offer)
        IN  /\ InEvaluationOrder(ms[1].reasons)
            /\ \A n \in 1..7 : ReasonOfSignalListed(ms[1].reasons, n) <=> sigs[n].pts # 0

\* C9 (amended): the reasons are a subsequence of the evaluation order; the
\* reason of the brand, price, rating, review, image and penalty signal is
\* listed if and only if that signal changed the score; the similarity
\* reason is listed whenever the signal is evaluated (always with the fuzzy
\* library, in fallback mode iff the normalized query has a word), also
\* when the similarity is 0.
C9_ReasonsInOrderAndFired ==
    Scored =>
        LET sigs == match_signals(fuzz, query, brand, ms[1].offer)
        IN  /\ InEvaluationOrder(ms[1].reasons)
            /\ \A n \in 2..7 : ReasonOfSignalListed(ms[1].reasons, n) <=> sigs[n].pts # 0
            /\ ReasonOfSignalListed(ms[1].reasons, 1)
                   <=> (fuzz \/ split_words(normalize_product_name(query)) # {})
            /\ sigs[1].pts # 0 => ReasonOfSignalListed(ms[1].reasons, 1)

\* C9 witness: a similarity of 0 is listed next to signals that fired, and
\* no reason stands for the absent price and rating.
C9_Witness ==
    /\ Scored
    /\ similarity_of(fuzz, query, ms[1].offer.title).pts = 0
    /\ ReasonOfSignalListed(ms[1].reasons, 1)
    /\ ReasonOfSignalListed(ms[1].reasons, 5)
    /\ ms[1].offer.price_krw = None /\ ms[1].offer.rating = None
    /\ Len(ms[1].reasons) >= 3

\* the word sets of the normalized query and of the normalized title
QueryWords == split_words(normalize_product_name(query))
TitleWords == split_words(normalize_product_name(ms[1].offer.title))

\* C25: without the fuzzy library the similarity adds 50 * |Q \cap T| / |Q|
\* points to the score, Q and T being the word sets of the normalized query
\* and title; when Q is empty it adds nothing and lists no similarity reason
\* (the quotient is then never computed).
C25_FallbackWordOverlap ==
    (Scored /\ ~fuzz) =>
        LET rest == SumPts(match_signals(fuzz, query, brand, ms[1].offer), 2)
            n == Cardinality(QueryWords)
            k == Cardinality(QueryWords \cap TitleWords)
        IN  /\ n = 0 => /\ ms[1].score = Max(0, rest)
                        /\ ~ReasonOfSignalListed(ms[1].reasons, 1)
            /\ n > 0 => ms[1].score * n = Max(0, 50 * Scale * k + rest * n)

\* C25 witness: one of the two words of the query is a word of the title,
\* and the listing has no other signal: the score is 25.
C25_Witness ==
    /\ Scored /\ ~fuzz
    /\ Cardinality(QueryWords) = 2
    /\ Cardinality(QueryWords \cap TitleWords) = 1
    /\ ms[1].score = 25 * Scale
    /\ Len(ms[1].reasons) = 1


-----------------------------------------------------------------------------
(* Properties of the selector and the ranker (checked under Spec).         *)

Selected == pc = "select_best_offer"
Matched == pc = "match_offers_for_product"

ScoreOf(o) == calculate_match_score(query, brand, o).score
ScoresOf(list) == [i \in 1..Len(list) |-> ScoreOf(list[i])]
TopScore(list) == SetMax({ScoreOf(list[i]) : i \in 1..Len(list)})

\* the listings of a list that have the score v, in the order of the list
WithScore(list, v) == SelectSeq(list, LAMBDA o : ScoreOf(o) = v)

\* C2: listings of equal score keep the relative order of the input in the
\* ranked list, and the best offer is the first input listing of top score.
C2_StableOnTies ==
    /\ (Matched /\ offers # <<>>) =>
           \A i \in 1..Len(offers) :
               WithScore(ranked, ScoreOf(offers[i])) = WithScore(offers, ScoreOf(offers[i]))
    /\ ((Matched \/ Selected) /\ offers # <<>>) =>
           best = Some(WithScore(offers, TopScore(offers))[1])

\* C2 witness: two different listings tie for the top score and a third one,
\* placed first in the input, scores less.
C2_Witness ==
    /\ Matched /\ Len(offers) = 3
    /\ ScoreOf(offers[1]) < ScoreOf(offers[2])
    /\ ScoreOf(offers[2]) = ScoreOf(offers[3])
    /\ offers[2] # offers[3]
    /\ ranked = <<offers[2], offers[3], offers[1]>>

Orderings(n) == {f \in [1..n -> 1..n] : \A i, j \in 1..n : f[i] = f[j] => i = j}
Permuted(list, f) == [i \in 1..Len(list) |-> list[f[i]]]

\* C3 (as claimed): every ordering of the same listings gives the same best
\* listing and the same ranked sequence.
C3_SameRankingForEveryOrder ==
    Matched =>
        \A f \in Orderings(Len(offers)) :
            LET r == match_offers_for_product(Permuted(offers, f), query, brand)
            IN  r.best = best /\ r.sorted = ranked

NoTieOfDifferentListings(list) ==
    \A i, j \in 1..Len(list) : ScoreOf(list[i]) = ScoreOf(list[j]) => list[i] = list[j]

\* C3 (amended): every ordering of the same listings gives a ranked sequence
\* with the same sequence of scores, led by a best listing of the same
\* score; when no two different listings have equal scores, the best
\* listing and the ranked sequence are the same for every ordering.
C3_SameScoresForEveryOrder ==
    Matched =>
        \A f \in Orderings(Len(offers)) :
            LET r == match_offers_for_product(Permuted(offers, f), query, brand)
            IN  /\ ScoresOf(r.sorted) = ScoresOf(ranked)
                /\ (r.best = None) = (best = None)
                /\ r.best # None => ScoreOf(r.best[1]) = ScoreOf(best[1])
                /\ NoTieOfDifferentListings(offers) => (r.best = best /\ r.sorted = ranked)

\* C3 witness: three listings of three different scores arrive in an order
\* that is not the ranked one.
C3_Witness ==
    /\ Matched /\ Len(offers) = 3
    /\ NoTieOfDifferentListings(offers)
    /\ Cardinality({offers[i] : i \in 1..3}) = 3
    /\ ranked # offers

CountIn(list, o) == Cardinality({i \in 1..Len(list) : list[i] = o})

\* C4: for a non-empty input the ranked list holds every input listing
\* exactly once, in non-increasing score order, and the best listing is its
\* first element, never null, also below the threshold.
C4_RankedPermutationBestFirst ==
    (Matched /\ offers # <<>>) =>
        /\ Len(ranked) = Len(offers)
        /\ \A i \in 1..Len(offers) : CountIn(ranked, offers[i]) = CountIn(offers, offers[i])
        /\ \A i \in 1..(Len(ranked) - 1) : ScoreOf(ranked[i]) >= ScoreOf(ranked[i + 1])
        /\ best = Some(ranked[1])
        /\ ScoreOf(ranked[1]) = TopScore(offers)

\* C4 witness: the best of several listings scores below the threshold.
C4_Witness ==
    /\ Matched /\ Len(offers) >= 2
    /\ best # None
    /\ ScoreOf(best[1]) < DefaultThreshold * Scale
    /\ ScoreOf(offers[1]) < ScoreOf(offers[2])

\* C5: the empty input gives no best offer and exactly one warning,
\* "No offers found" from select_best_offer and "No offers available" (with
\* an empty ranked list) from match_offers_for_product.
C5_EmptyInput ==
    /\ (Selected /\ offers = <<>>) =>
           (best = None /\ warnings = <<[text |-> "No offers found"]>>)
    /\ (Matched /\ offers = <<>>) =>
           (best = None /\ ranked = <<>> /\ warnings = <<[text |-> "No offers available"]>>)

\* C5 witness: match_offers_for_product was called with no listing.
C5_Witness == Matched /\ offers = <<>> /\ warnings # <<>>

\* the ranking by score, ties by input position, stated without the sort
Precedes(sc, i, j) == sc[i] > sc[j] \/ (sc[i] = sc[j] /\ i < j)
PlaceOf(sc, i) == 1 + Cardinality({k \in 1..Len(sc) : Precedes(sc, k, i)})
AtPlace(list, p) ==
    list[CHOOSE i \in 1..Len(list) : PlaceOf(ScoresOf(list), i) = p]

\* C10: for a non-empty input the warnings are the low-confidence warning
\* iff best.score < threshold, followed by the alternative-candidate warning
\* naming the second-ranked listing iff there is one and its score is above
\* 0.9 times the best score; nothing else.
C10_ExactWarnings ==
    (Selected /\ offers # <<>>) =>
        LET top == AtPlace(offers, 1)
            low == ScoreOf(top) < threshold * Scale
            alt == Len(offers) > 1 /\ 10 * ScoreOf(AtPlace(offers, 2)) > 9 * ScoreOf(top)
            texts == [k \in 1..Len(warnings) |-> warnings[k].text]
        IN  /\ texts = (IF low THEN <<"Best match score is below threshold">> ELSE <<>>)
                       \o (IF alt THEN <<"Alternative candidate">> ELSE <<>>)
            /\ alt => warnings[Len(warnings)].title = AtPlace(offers, 2).title
            /\ alt => warnings[Len(warnings)].score = Fmt1(ScoreOf(AtPlace(offers, 2)))
            /\ low => warnings[1].score = Fmt1(ScoreOf(top))

\* C10 witness: both warnings, for a best score below the threshold of 60
\* and a runner-up of the same score.
C10_Witness ==
    /\ Selected /\ Len(offers) >= 2 /\ threshold = 60
    /\ Len(warnings) = 2
    /\ ScoreOf(best[1]) >= DefaultThreshold * Scale

-----------------------------------------------------------------------------
(* calculate_comparison (aggregate.py).                                    *)

ProductSummary(b, q, best_offer, offer_list) ==
    [brand |-> b, query |-> q, best_offer |-> best_offer, offers |-> offer_list,
     key_features |-> <<>>, pros |-> <<>>, cons |-> <<>>, sentiment |-> None,
     evidence |-> <<>>]

Comparison(rating_diff, price_diff, review_diff) ==
    [rating_diff |-> rating_diff, price_diff_krw |-> price_diff,
     review_count_diff |-> review_diff]

\* `a - b` when both operands are not None, None otherwise
diff_of(a, b) == IF a # None /\ b # None THEN Some(a[1] - b[1]) ELSE None

\* a comparison that gives no diff at all when any operand is missing
calculate_comparison_all_or_nothing(pa, pb) ==
    IF /\ pa.best_offer # None /\ pb.best_offer # None
       /\ \A o \in {pa.best_offer[1], pb.best_offer[1]} :
              o.rating # None /\ o.price_krw # None /\ o.review_count # None
    THEN Comparison(diff_of(pa.best_offer[1].rating, pb.best_offer[1].rating),
                    diff_of(pa.best_offer[1].price_krw, pb.best_offer[1].price_krw),
                    diff_of(pa.best_offer[1].review_count, pb.best_offer[1].review_count))
    ELSE Comparison(None, None, None)

\* An Offer object is truthy, so `if product_a.best_offer and
\* product_b.best_offer` tests the two for None.  Ratings are in hundredths,
\* so round(rating_a - rating_b, 2) is their difference.
calculate_comparison(pa, pb) ==
    IF pa.best_offer # None /\ pb.best_offer # None
    THEN Comparison(diff_of(pa.best_offer[1].rating, pb.best_offer[1].rating),
                    diff_of(pa.best_offer[1].price_krw, pb.best_offer[1].price_krw),
                    diff_of(pa.best_offer[1].review_count, pb.best_offer[1].review_count))
    ELSE Comparison(None, None, None)

\* the best listings a summary can carry
BestOffers ==
    {None} \cup
    {Some(Offer(SINRAMYEON, "u0", p, r, c, None)) :
        p \in {None, Some(0), Some(4200), Some(4500)},
        r \in {None, Some(0), Some(450)},
        c \in {None, Some(0), Some(1000)}}

MatchIdle ==
    /\ fuzz = FALSE /\ query = <<>> /\ brand = <<>> /\ threshold = DefaultThreshold
    /\ offers = <<>> /\ pc = "ready" /\ ms = None /\ best = None
    /\ ranked = <<>> /\ warnings = <<>>

InitCompare ==
    /\ MatchIdle /\ NormalizeIdle /\ RatingIdle /\ ServiceIdle
    /\ product_a \in {ProductSummary(<<"NONG", "SIM">>, SINRAMYEON, b, <<>>) : b \in BestOffers}
    /\ product_b \in {ProductSummary(<<"OT", "TTU", "GI">>, <<"JIN", "RA", "MYEON">>, b, <<>>) :
                         b \in BestOffers}
    /\ comparison = None

CalculateComparison ==
    /\ comparison = None
    /\ comparison' = Some(calculate_comparison(product_a, product_b))
    /\ UNCHANGED <<matchVars, normalizeVars, ratingVars, serviceVars, product_a, product_b>>

NextCompare == CalculateComparison

SpecCompare == InitCompare /\ [][NextCompare]_vars

\* C11: the diffs are all null when a best listing is null; otherwise each
\* diff is decided by its own two operands only: it is A - B when both are
\* present and null when one is missing.
C11_DiffsPerField ==
    comparison # None =>
        LET c == comparison[1]
            a == product_a.best_offer
            b == product_b.best_offer
        IN  IF a = None \/ b = None
            THEN c = Comparison(None, None, None)
            ELSE /\ c.rating_diff # None <=> (a[1].rating # None /\ b[1].rating # None)
                 /\ c.rating_diff # None => c.rating_diff[1] = a[1].rating[1] - b[1].rating[1]
                 /\ c.price_diff_krw =
                        (IF a[1].price_krw # None /\ b[1].price_krw # None
                         THEN Some(a[1].price_krw[1] - b[1].price_krw[1]) ELSE None)
                 /\ c.review_count_diff =
                        (IF a[1].review_count # None /\ b[1].review_count # None
                         THEN Some(a[1].review_count[1] - b[1].review_count[1]) ELSE None)

\* C11 witness: A has a price and no rating, B has both: the price diff is
\* there, the rating diff is null.
C11_Witness ==
    /\ comparison # None
    /\ product_a.best_offer # None /\ product_b.best_offer # None
    /\ product_a.best_offer[1].rating = None
    /\ product_b.best_offer[1].rating # None
    /\ comparison[1].price_diff_krw = Some(300)
    /\ comparison[1].rating_diff = None

-----------------------------------------------------------------------------
(* normalize_product_name as a function of any string.                     *)

MaxNameLen == 4
MaxApplications == 2

\* the characters product names are made of: a digit, a weight unit, the
\* delimiters, a space, two count units and the two syllables of a brand
NameAlphabet == {"1", "g", "(", ")", " ", "GAE", "IP", "NONG", "SIM"}

RECURSIVE StringsUpTo(_, _)
StringsUpTo(A, n) ==
    IF n = 0 THEN {<<>>}
    ELSE Bind(StringsUpTo(A, n - 1), LAMBDA shorter :
             shorter \cup {Append(t, c) : t \in {u \in shorter : Len(u) = n - 1}, c \in A})

InitNormalize ==
    /\ MatchIdle /\ CompareIdle /\ RatingIdle /\ ServiceIdle
    /\ raw_name \in StringsUpTo(NameAlphabet, MaxNameLen)
    /\ normalized_names = <<>>

\* normalize_product_name(raw_name), then normalize_product_name of the result
NormalizeProductName ==
    /\ Len(normalized_names) < MaxApplications
    /\ normalized_names' =
           Append(normalized_names,
                  normalize_product_name(IF normalized_names = <<>> THEN raw_name
                                         ELSE normalized_names[Len(normalized_names)]))
    /\ UNCHANGED <<matchVars, compareVars, ratingVars, serviceVars, raw_name>>

NextNormalize == NormalizeProductName

SpecNormalize == InitNormalize /\ [][NextNormalize]_vars

\* C12 (as claimed): normalizing a normalized name changes nothing.
C12_Idempotent ==
    Len(normalized_names) >= 2 => normalized_names[2] = normalized_names[1]

\* the brand tokens of C13, in lower case
brand_tokens == {brand_patterns[k] : k \in 1..Len(brand_patterns)}

\* C13 (as claimed): no configured brand token occurs, in any case, in the
\* result of normalize_product_name.
C13_NoBrandTokenLeft ==
    Len(normalized_names) >= 1 =>
        \A b \in brand_tokens : ~Contains(lower(normalized_names[1]), b)

\* the count units of C14
claimed_count_units == {<<"GAE">>, <<"BONG">>, <<"IP">>, <<"PAEK">>, <<"BAK", "SEU">>}

\* the tokens <number><unit> of s, with the character that follows each
CountTokens(s) ==
    {[token |-> SubSeq(s, i, j), next |-> IF j < Len(s) THEN <<s[j + 1]>> ELSE <<>>] :
        <<i, j>> \in {w \in (1..Len(s)) \X (1..Len(s)) :
            /\ w[1] < w[2]
            /\ (w[1] = 1 \/ ~IsDigit(s[w[1] - 1]))
            /\ \E u \in claimed_count_units :
                   /\ w[2] - w[1] + 1 = DigitRun(s, w[1]) + Len(u)
                   /\ DigitRun(s, w[1]) > 0
                   /\ StartsWithAt(s, w[1] + DigitRun(s, w[1]), u)}}

\* C14 (as claimed): the result contains no <number><unit> token of the
\* title, and not the "입" that directly follows such a token.
C14_CountTokensStripped ==
    Len(normalized_names) >= 1 =>
        \A t \in CountTokens(raw_name) :
            /\ ~Contains(normalized_names[1], t.token)
            /\ t.next = <<"IP">> => ~Contains(normalized_names[1], <<"IP">>)

-----------------------------------------------------------------------------
(* Ratings: normalize_rating (utils.py) and the two Danawa parsers          *)
(* (sources/danawa.py).  In this section a rating is a rational number      *)
(* times RatingScale, so that val / 20.0 of a value with two decimals is    *)
(* an integer: 1.0 is 2000, 4.35 is 8700, 87 is 174000.                     *)

RatingScale == 20 * 100

\* a rating with two decimals, given in hundredths
Rating(hundredths) == 20 * hundredths

\* round(x, 2): to the nearest hundredth, a tie to the even one
round2(x) ==
    LET q == x \div 20
        r == x % 20
    IN  20 * (IF r > 10 THEN q + 1 ELSE IF r = 10 THEN q + (q % 2) ELSE q)

\* Python truthiness of an Optional[float]
TruthyFloat(x) == x # None /\ x[1] # 0

\* a normalize_rating that rescales and rounds and does not clamp
normalize_rating_unclamped(rating, max_rating) ==
    IF rating = None THEN None
    ELSE LET scaled == IF max_rating # 5
                       THEN ExactDiv(rating[1] * 5, max_rating)
                       ELSE rating[1]
         IN  Some(round2(scaled))

normalize_rating(rating, max_rating) ==
    IF rating = None THEN None
    ELSE LET scaled == IF max_rating # 5
                       THEN ExactDiv(rating[1] * 5, max_rating)
                       ELSE rating[1]
         IN  Some(round2(Min(Max(scaled, 0), 5 * RatingScale)))

\* the rating loop of _parse_danawa_html over the selectors that found an
\* element: the first truthy normalized rating ends the loop, otherwise
\* the rating of the last element stays
RECURSIVE parse_rating(_, _, _)
parse_rating(texts, k, rating) ==
    IF k > Len(texts) THEN rating
    ELSE Bind(texts[k], LAMBDA parsed :
         Bind(IF TruthyFloat(parsed) /\ parsed[1] > 5 * RatingScale
              THEN Some(ExactDiv(parsed[1], 20)) ELSE parsed, LAMBDA rescaled :
         Bind(normalize_rating(rescaled, 5), LAMBDA r :
             IF TruthyFloat(r) THEN r ELSE parse_rating(texts, k + 1, r))))

\* _get_product_details: the rating of the product page, not rounded, and
\* the pair it returns (None when neither value is truthy)
get_product_details(page) ==
    LET rating == IF page.rating = None THEN None
                  ELSE Some(Min(5 * RatingScale,
                                Max(0, IF page.rating[1] > 5 * RatingScale
                                       THEN ExactDiv(page.rating[1], 20)
                                       ELSE page.rating[1])))
    IN  IF TruthyFloat(rating) \/ TruthyInt(page.review_count)
        THEN Some([rating |-> rating, review_count |-> page.review_count])
        ELSE None

\* search_danawa: `rating if rating else offers[0].rating`
detailed_rating(old, page) ==
    Bind(get_product_details(page), LAMBDA detailed_info :
        IF detailed_info # None /\ TruthyFloat(detailed_info[1].rating)
        THEN detailed_info[1].rating
        ELSE old)

\* what safe_float makes of a rating element: nothing, a negative number,
\* a rating of 0 to 5, a score of 0 to 100, a number above 100
RawRatings ==
    {None} \cup {Some(Rating(h)) : h \in {-300, 0, 1, 450, 500, 501, 875, 8700, 8750,
                                          10000, 10020, 25000}}

\* the numbers the pattern (\d+\.?\d*) finds on a product page
PageRatings == {None} \cup {Some(Rating(h)) : h \in {0, 435, 500, 520, 8730, 25000}}

MaxRatingElements == 2

\* the scales normalize_rating is called with
MaxRatings == {5, 10, 100}

InitRating ==
    /\ MatchIdle /\ CompareIdle /\ NormalizeIdle /\ ServiceIdle
    /\ rating_texts \in ListsUpTo(RawRatings, MaxRatingElements)
    /\ detail_page \in [rating : PageRatings, review_count : {None, Some(0), Some(1000)}]
    /\ listing_rating = None
    /\ rating_pc = "ready"

\* a direct call normalize_rating(rating, max_rating)
NormalizeRating(max_rating) ==
    /\ rating_pc = "ready"
    /\ Len(rating_texts) = 1
    /\ listing_rating' = normalize_rating(rating_texts[1], max_rating)
    /\ rating_pc' = "normalize_rating"
    /\ UNCHANGED <<matchVars, compareVars, normalizeVars, serviceVars, rating_texts, detail_page>>

\* the rating _parse_danawa_html gives the listing
ParseDanawaHtml ==
    /\ rating_pc = "ready"
    /\ listing_rating' = parse_rating(rating_texts, 1, None)
    /\ rating_pc' = "_parse_danawa_html"
    /\ UNCHANGED <<matchVars, compareVars, normalizeVars, serviceVars, rating_texts, detail_page>>

\* the rating search_danawa gives the first listing from its product page
GetProductDetails ==
    /\ rating_pc = "_parse_danawa_html"
    /\ listing_rating' = detailed_rating(listing_rating, detail_page)
    /\ rating_pc' = "search_danawa"
    /\ UNCHANGED <<matchVars, compareVars, normalizeVars, serviceVars, rating_texts, detail_page>>

NextRating ==
    \/ \E m \in MaxRatings : NormalizeRating(m)
    \/ ParseDanawaHtml
    \/ GetProductDetails

SpecRating == InitRating /\ [][NextRating]_vars

\* C15: a rating produced by normalize_rating or by the Danawa parsers is
\* null or lies in [0.0, 5.0].
C15_RatingInRange ==
    rating_pc \in {"normalize_rating", "_parse_danawa_html", "search_danawa"} =>
        \/ listing_rating = None
        \/ (listing_rating[1] >= 0 /\ listing_rating[1] <= 5 * RatingScale)

\* C15 witness: a negative raw rating is clamped to 0.0, which does not end
\* the loop, and the raw score above 100 that follows reaches the listing
\* as 5.0.
C15_Witness ==
    /\ rating_pc = "_parse_danawa_html"
    /\ Len(rating_texts) = 2
    /\ rating_texts[1] = Some(Rating(-300))
    /\ rating_texts[2] = Some(Rating(25000))
    /\ listing_rating = Some(5 * RatingScale)

-----------------------------------------------------------------------------
(* aggregate.py: the listings of one product, from the DynamoDB table and  *)
(* from the Danawa site.                                                   *)

\* what a collaborator does when it is called, and the listings it has
Outcome(kind, offer_list) == [kind |-> kind, offers |-> offer_list]

\* The table read raises, times out (botocore raises then too), finds no
\* item, or finds an item; every exception is caught inside.
get_cached_offers(table) ==
    IF table.kind = "item"
    THEN [offers |-> table.offers, from_cache |-> TRUE]
    ELSE [offers |-> <<>>, from_cache |-> FALSE]

\* the import of dynamodb_client is inside the try as well
fetch_from_dynamodb(table) ==
    IF table.kind = "import_error"
    THEN [offers |-> <<>>, from_cache |-> FALSE]
    ELSE get_cached_offers(table)

\* The request raises or times out (httpx.HTTPError both), or the page is
\* parsed; search_danawa catches every exception and never raises itself.
search_danawa(site) ==
    IF site.kind = "page"
    THEN [raised |-> FALSE, offers |-> site.offers]
    ELSE [raised |-> FALSE, offers |-> <<>>]

\* lines 56-66: direct scraping, after the warnings and calls made so far
scrape_danawa(warned, called, site) ==
    Bind(search_danawa(site), LAMBDA r :
        IF r.raised
        THEN [offers |-> <<>>, warnings |-> Append(warned, [text |-> "Scraping error"]),
              invoked |-> Append(called, "danawa")]
        ELSE IF r.offers # <<>>
        THEN [offers |-> r.offers,
              warnings |-> <<[text |-> "Data from direct Danawa scraping"]>>,
              invoked |-> Append(called, "danawa")]
        ELSE [offers |-> <<>>,
              warnings |-> Append(warned, [text |-> "No results from Danawa scraping"]),
              invoked |-> Append(called, "danawa")])

\* a fetch that goes on to scrape in Lambda too
fetch_from_sources_scraping_in_lambda(q, b, sources, table, site) ==
    IF IS_LAMBDA \/ USE_DYNAMODB
    THEN Bind(fetch_from_dynamodb(table), LAMBDA r :
             IF r.offers # <<>>
             THEN [offers |-> r.offers,
                   warnings |-> <<[text |-> "Data from DynamoDB cache",
                                   offers |-> Len(r.offers)]>>,
                   invoked |-> <<"dynamodb">>]
             ELSE scrape_danawa(<<[text |-> "No cached data in DynamoDB"]>>,
                                <<"dynamodb">>, site))
    ELSE scrape_danawa(<<>>, <<>>, site)

\* `sources` is not read.  `invoked` lists the collaborators the call awaits.
fetch_from_sources(q, b, sources, table, site) ==
    IF IS_LAMBDA \/ USE_DYNAMODB
    THEN Bind(fetch_from_dynamodb(table), LAMBDA r :
             IF r.offers # <<>>
             THEN [offers |-> r.offers,
                   warnings |-> <<[text |-> "Data from DynamoDB cache",
                                   offers |-> Len(r.offers)]>>,
                   invoked |-> <<"dynamodb">>]
             ELSE IF IS_LAMBDA
             THEN [offers |-> <<>>,
                   warnings |-> <<[text |-> "No cached data in DynamoDB"]>>,
                   invoked |-> <<"dynamodb">>]
             ELSE scrape_danawa(<<[text |-> "No cached data in DynamoDB"]>>,
                                <<"dynamodb">>, site))
    ELSE scrape_danawa(<<>>, <<>>, site)

\* an aggregation that fills in the placeholder of a product without a best
\* listing itself
aggregate_product_data_placeholder(q, b, sources, table, site) ==
    Bind(fetch_from_sources(q, b, sources, table, site), LAMBDA f :
    Bind(match_offers_for_product(f.offers, q, b), LAMBDA m :
        [summary |-> [ProductSummary(b, q, m.best, m.sorted) EXCEPT
                         !.key_features = IF m.best = None THEN <<"no product information">>
                                          ELSE <<>>],
         warnings |-> f.warnings \o m.warnings,
         invoked |-> f.invoked]))

aggregate_product_data(q, b, sources, table, site) ==
    Bind(fetch_from_sources(q, b, sources, table, site), LAMBDA f :
    Bind(match_offers_for_product(f.offers, q, b), LAMBDA m :
        [summary |-> ProductSummary(b, q, m.best, m.sorted),
         warnings |-> f.warnings \o m.warnings,
         invoked |-> f.invoked]))

\* the listings stored in the table and the listings of a search page
CachedListings ==
    { <<>>,
      <<Offer(NONGSIM_SINRAMYEON, "u1", Some(4500), Some(450), Some(1000), Some("img"))>>,
      <<Offer(<<"OT", "TTU", "GI", " ", "JIN", "RA", "MYEON">>, "u4", Some(4200), None, None, None),
        Offer(NONGSIM_SINRAMYEON, "u1", Some(4500), Some(450), Some(1000), Some("img"))>> }
ScrapedListings ==
    { <<>>,
      <<Offer(NONGSIM_SINRAMYEON, "u2", Some(4500), Some(450), Some(1000), Some("img"))>>,
      <<Offer(SINRAMYEON \o <<" ">> \o SET, "u3", Some(35000), Some(470), Some(200), None),
        Offer(NONGSIM_SINRAMYEON, "u2", Some(4500), Some(450), Some(1000), Some("img"))>> }

Tables ==
    {Outcome(k, <<>>) : k \in {"import_error", "raises", "timeout", "no_item"}}
        \cup {Outcome("item", l) : l \in CachedListings}
Sites ==
    {Outcome(k, <<>>) : k \in {"raises", "timeout"}}
        \cup {Outcome("page", l) : l \in ScrapedListings}

\* the request's list of source names
SourceLists == {<<"danawa">>, <<"11st", "danawa">>, <<"invalid_source">>, <<>>}

InitAggregate ==
    /\ CompareIdle /\ NormalizeIdle /\ RatingIdle /\ ApiIdle /\ CacheIdle
    /\ fuzz \in BOOLEAN
    /\ query \in {SINRAMYEON, <<"SE">>}
    /\ brand \in {<<"NONG", "SIM">>, <<>>}
    /\ threshold = DefaultThreshold /\ offers = <<>> /\ pc = "ready"
    /\ ms = None /\ best = None /\ ranked = <<>> /\ warnings = <<>>
    /\ IS_LAMBDA \in BOOLEAN
    /\ USE_DYNAMODB \in BOOLEAN
    /\ dynamodb \in Tables
    /\ danawa \in Sites
    /\ invoked = <<>>
    /\ fetched = None
    /\ aggregated = None

\* a direct call fetch_from_sources(query, brand, sources)
FetchFromSources(sources) ==
    /\ fetched = None /\ aggregated = None
    /\ \E r \in {fetch_from_sources(query, brand, sources, dynamodb, danawa)} :
           /\ fetched' = Some([offers |-> r.offers, warnings |-> r.warnings])
           /\ invoked' = r.invoked
    /\ UNCHANGED <<matchVars, compareVars, normalizeVars, ratingVars, environmentVars,
                   apiVars, cacheVars, dynamodb, danawa, aggregated>>

\* a call aggregate_product_data(query, brand, sources)
AggregateProductData(sources) ==
    /\ fetched = None /\ aggregated = None
    /\ \E r \in {aggregate_product_data(query, brand, sources, dynamodb, danawa)} :
           /\ aggregated' = Some([summary |-> r.summary, warnings |-> r.warnings])
           /\ invoked' = r.invoked
    /\ UNCHANGED <<matchVars, compareVars, normalizeVars, ratingVars, environmentVars,
                   apiVars, cacheVars, dynamodb, danawa, fetched>>

NextAggregate ==
    \/ \E sources \in SourceLists : FetchFromSources(sources)
    \/ \E sources \in SourceLists : AggregateProductData(sources)

SpecAggregate == InitAggregate /\ [][NextAggregate]_vars

\* the collaborator raises, times out or has no listing
Failed(o) == o.kind \notin {"page", "item"} \/ o.offers = <<>>

\* C16: when one collaborator raises, times out or returns no listing, the
\* aggregation has a warning, has still called the other collaborator, and
\* the summary carries the listings of the other collaborator.
C16_PartialFailureTolerated ==
    aggregated # None =>
        /\ (Failed(dynamodb) /\ ~Failed(danawa)) =>
               /\ aggregated[1].warnings # <<>>
               /\ \E i \in 1..Len(invoked) : invoked[i] = "danawa"
               /\ \A i \in 1..Len(danawa.offers) :
                      \E j \in 1..Len(aggregated[1].summary.offers) :
                          aggregated[1].summary.offers[j] = danawa.offers[i]
        /\ (Failed(danawa) /\ ~Failed(dynamodb)) =>
               /\ aggregated[1].warnings # <<>>
               /\ \E i \in 1..Len(invoked) : invoked[i] = "dynamodb"
               /\ \A i \in 1..Len(dynamodb.offers) :
                      \E j \in 1..Len(aggregated[1].summary.offers) :
                          aggregated[1].summary.offers[j] = dynamodb.offers[i]

Invoked(who) == \E i \in 1..Len(invoked) : invoked[i] = who

\* C30: in Lambda the scraper is never invoked; and in every environment,
\* when the DynamoDB read returns at least one offer, the scraper is not
\* invoked and fetch_from_sources returns exactly those offers.
C30_NoScrapingInLambda ==
    (fetched # None \/ aggregated # None) =>
        /\ IS_LAMBDA => ~Invoked("danawa")
        /\ (Invoked("dynamodb") /\ fetch_from_dynamodb(dynamodb).offers # <<>>) =>
               /\ ~Invoked("danawa")
               /\ fetched # None => fetched[1].offers = dynamodb.offers

\* C30 witness: in Lambda the table read fails and the site has listings:
\* fetch_from_sources has returned no offer after the table read alone.
C30_Witness ==
    /\ IS_LAMBDA
    /\ fetched # None
    /\ dynamodb.kind = "timeout"
    /\ danawa.kind = "page" /\ danawa.offers # <<>>
    /\ invoked = <<"dynamodb">>
    /\ fetched[1].offers = <<>>
    /\ fetched[1].warnings = <<[text |-> "No cached data in DynamoDB"]>>

\* C19: when every source yields zero listings the aggregation returns a
\* summary with a null best offer, no offers and at least one warning; and
\* the summary of any aggregation has empty key_features, pros, cons and
\* evidence and a null sentiment.
C19_NoListingsIsNoError ==
    aggregated # None =>
        /\ (Failed(dynamodb) /\ Failed(danawa)) =>
               /\ aggregated[1].summary.best_offer = None
               /\ aggregated[1].summary.offers = <<>>
               /\ Len(aggregated[1].warnings) >= 1
        /\ aggregated[1].summary.key_features = <<>>
        /\ aggregated[1].summary.pros = <<>>
        /\ aggregated[1].summary.cons = <<>>
        /\ aggregated[1].summary.evidence = <<>>
        /\ aggregated[1].summary.sentiment = None

\* C19 witness: outside Lambda the table read raises and the search page has
\* no listing: both collaborators were called, and the summary is empty with
\* the three warnings.
C19_Witness ==
    /\ aggregated # None
    /\ ~IS_LAMBDA /\ USE_DYNAMODB
    /\ dynamodb.kind = "raises"
    /\ danawa = Outcome("page", <<>>)
    /\ invoked = <<"dynamodb", "danawa">>
    /\ aggregated[1].summary = ProductSummary(brand, query, None, <<>>)
    /\ aggregated[1].warnings = <<[text |-> "No cached data in DynamoDB"],
                                  [text |-> "No results from Danawa scraping"],
                                  [text |-> "No offers available"]>>

-----------------------------------------------------------------------------
(* cache.py: the response cache and the rate limiter of force refreshes.   *)
(* A dict is the sequence of its items in insertion order.  Times are in   *)
(* ticks, TicksPerSecond of them to the second.                            *)

TicksPerSecond == 2
Seconds(n) == n * TicksPerSecond

DefaultMaxSize == 100
DefaultTtlSeconds == 900
DefaultWindowSeconds == 60
\* config.py's Settings
CacheTtlSeconds == 900

\* d.get(k): None, or the value
DictGet(d, k) ==
    IF \E i \in 1..Len(d) : d[i].key = k
    THEN Some(d[CHOOSE i \in 1..Len(d) : d[i].key = k].value)
    ELSE None

\* d[k] = v: an item that is there keeps its place
DictSet(d, k, v) ==
    IF \E i \in 1..Len(d) : d[i].key = k
    THEN [i \in 1..Len(d) |-> IF d[i].key = k THEN [key |-> k, value |-> v] ELSE d[i]]
    ELSE Append(d, [key |-> k, value |-> v])

\* del d[k]
DictDel(d, k) == SelectSeq(d, LAMBDA item : item.key # k)

CacheEntry(value, expires_at) == [value |-> value, expires_at |-> expires_at]

InMemoryCache(max_size, ttl_seconds) ==
    [entries |-> <<>>, max_size |-> max_size, ttl_seconds |-> ttl_seconds]

\* InMemoryCache.get at time t: the cache afterwards and the value returned
cache_get(c, key, t) ==
    Bind(DictGet(c.entries, key), LAMBDA entry :
        IF entry = None
        THEN [cache |-> c, value |-> None]
        ELSE IF t > entry[1].expires_at
        THEN [cache |-> [c EXCEPT !.entries = DictDel(c.entries, key)], value |-> None]
        ELSE [cache |-> c, value |-> Some(entry[1].value)])

\* the first key, in dict order, of the least expires_at
oldest_key(entries) ==
    entries[CHOOSE i \in 1..Len(entries) :
                /\ \A j \in 1..Len(entries) : entries[i].value.expires_at <= entries[j].value.expires_at
                /\ \A j \in 1..(i - 1) : entries[j].value.expires_at > entries[i].value.expires_at].key

evict_oldest(entries) ==
    IF entries = <<>> THEN entries ELSE DictDel(entries, oldest_key(entries))

\* InMemoryCache.set, before the lock: expires_at from the clock at t;
\* `ttl or self._ttl_seconds` takes the default for None and for 0
set_expires_at(c, ttl, t) ==
    t + Seconds(IF ttl = None \/ ttl = Some(0) THEN c.ttl_seconds ELSE ttl[1])

\* a set that never evicts
set_locked_unbounded(c, key, value, expires_at) ==
    [c EXCEPT !.entries = DictSet(c.entries, key, CacheEntry(value, expires_at))]

\* InMemoryCache.set, under the lock
set_locked(c, key, value, expires_at) ==
    Bind(IF Len(c.entries) >= c.max_size /\ DictGet(c.entries, key) = None
         THEN evict_oldest(c.entries) ELSE c.entries, LAMBDA kept :
        [c EXCEPT !.entries = DictSet(kept, key, CacheEntry(value, expires_at))])

\* InMemoryCache.set at time t, run without interruption
cache_set(c, key, value, ttl, t) == set_locked(c, key, value, set_expires_at(c, ttl, t))

\* InMemoryCache.clear
cache_clear(c) == [c EXCEPT !.entries = <<>>]

RateLimiter(window_seconds) == [last_refresh |-> <<>>, window_seconds |-> window_seconds]

\* a limiter that restarts the window at a denied call
check_and_update_extending(rl, key, t) ==
    Bind(DictGet(rl.last_refresh, key), LAMBDA last :
    Bind(t - (IF last = None THEN 0 ELSE last[1]), LAMBDA elapsed :
        IF elapsed >= Seconds(rl.window_seconds)
        THEN [limiter |-> [rl EXCEPT !.last_refresh = DictSet(rl.last_refresh, key, t)],
              allowed |-> TRUE, remaining |-> 0]
        ELSE [limiter |-> [rl EXCEPT !.last_refresh = DictSet(rl.last_refresh, key, t)],
              allowed |-> FALSE,
              remaining |-> (Seconds(rl.window_seconds) - elapsed) \div TicksPerSecond]))

\* RateLimiter.check_and_update at time t: the limiter afterwards, allowed,
\* and int(window - elapsed) in seconds
check_and_update(rl, key, t) ==
    Bind(DictGet(rl.last_refresh, key), LAMBDA last :
    Bind(t - (IF last = None THEN 0 ELSE last[1]), LAMBDA elapsed :
        IF elapsed >= Seconds(rl.window_seconds)
        THEN [limiter |-> [rl EXCEPT !.last_refresh = DictSet(rl.last_refresh, key, t)],
              allowed |-> TRUE, remaining |-> 0]
        ELSE [limiter |-> rl, allowed |-> FALSE,
              remaining |-> (Seconds(rl.window_seconds) - elapsed) \div TicksPerSecond]))

\* the source names in code point order, and sorted(sources)
SourceOrder == <<"11st", "danawa", "invalid_source">>
SourceRank(name) == CHOOSE i \in 1..Len(SourceOrder) : SourceOrder[i] = name
RECURSIVE sorted_sources(_)
sorted_sources(l) ==
    IF l = <<>> THEN <<>>
    ELSE Bind(CHOOSE i \in 1..Len(l) :
                  /\ \A j \in 1..Len(l) : SourceRank(l[i]) <= SourceRank(l[j])
                  /\ \A j \in 1..(i - 1) : SourceRank(l[j]) > SourceRank(l[i]),
              LAMBDA i : <<l[i]>> \o sorted_sources(SubSeq(l, 1, i - 1) \o SubSeq(l, i + 1, Len(l))))

\* make_cache_key: the key is the md5 of the JSON text of this record; the
\* record stands for its digest
make_cache_key(brand_a, prod_a, brand_b, prod_b, sources) ==
    [brand_a |-> lower(brand_a), product_a |-> lower(prod_a),
     brand_b |-> lower(brand_b), product_b |-> lower(prod_b),
     sources |-> sorted_sources(sources)]

-----------------------------------------------------------------------------
(* api.py: POST /compare.  The handler is a coroutine: it runs alone from  *)
(* one await to the next, and other handlers run while it waits.           *)

CompareRequest(brand_a, prod_a, brand_b, prod_b, sources, force_refresh) ==
    [brand_a |-> brand_a, product_a |-> prod_a, brand_b |-> brand_b,
     product_b |-> prod_b, sources |-> sources, force_refresh |-> force_refresh]

\* the body is validated against CompareRequest before the handler runs:
\* sources is a List[Literal["danawa"]]
valid_request(body) == \A i \in 1..Len(body.sources) : body.sources[i] = "danawa"

CompareResponse(request_id, summary_a, summary_b, diffs, warned, cached) ==
    [request_id |-> request_id, product_a |-> summary_a, product_b |-> summary_b,
     comparison |-> diffs, warnings |-> warned, cached |-> cached]

\* response.model_dump_json(): the members of the JSON object, in field order
model_dump_json(response) ==
    << [key |-> "request_id", value |-> response.request_id],
       [key |-> "product_a", value |-> response.product_a],
       [key |-> "product_b", value |-> response.product_b],
       [key |-> "comparison", value |-> response.comparison],
       [key |-> "warnings", value |-> response.warnings],
       [key |-> "cached", value |-> response.cached] >>

\* a validation that takes every text for a response
model_validate_json_lenient(text) ==
    Some(CompareResponse(
             IF DictGet(text, "request_id") = None THEN 0 ELSE DictGet(text, "request_id")[1],
             DictGet(text, "product_a"), DictGet(text, "product_b"),
             DictGet(text, "comparison"), <<>>, FALSE))

\* CompareResponse.model_validate_json(text): None when it raises; a member
\* that has a default may be missing
model_validate_json(text) ==
    IF \A k \in {"request_id", "product_a", "product_b", "comparison"} : DictGet(text, k) # None
    THEN Some(CompareResponse(
             DictGet(text, "request_id")[1], DictGet(text, "product_a")[1],
             DictGet(text, "product_b")[1], DictGet(text, "comparison")[1],
             IF DictGet(text, "warnings") = None THEN <<>> ELSE DictGet(text, "warnings")[1],
             IF DictGet(text, "cached") = None THEN FALSE ELSE DictGet(text, "cached")[1]))
    ELSE None

\* enrich_product_summary, with the dictionary summarize_product_with_llm
\* returns for the best offer
enrich_product_summary(summary, llm_result) ==
    IF summary.best_offer = None
    THEN [summary EXCEPT !.key_features = <<"no product information">>]
    ELSE [summary EXCEPT !.key_features = llm_result.key_features,
                         !.pros = llm_result.pros,
                         !.cons = llm_result.cons,
                         !.evidence = llm_result.evidence]

\* what the model or the fallback summary says
LlmResults ==
    { [key_features |-> <<"lowest price", "rating">>, pros |-> <<"many reviews">>,
       cons |-> <<"high price">>, evidence |-> <<"product match">>] }

Call(what, product, returned) == [call |-> what, product |-> product, returned |-> returned]

\* the last call of the handler has returned
Returned(calls) ==
    [i \in 1..Len(calls) |-> IF i = Len(calls) THEN [calls[i] EXCEPT !.returned = TRUE]
                              ELSE calls[i]]

\* the first await of fetch_from_sources
first_fetch == IF IS_LAMBDA \/ USE_DYNAMODB THEN "fetch_from_dynamodb" ELSE "search_danawa"

\* a handler: the request, the await it is at, its locals, the calls it has
\* made and its response
Handler(request, at, product, calls) ==
    [request |-> request, pc |-> at, product |-> product,
     cache_key |-> make_cache_key(request.brand_a, request.product_a, request.brand_b,
                                  request.product_b, request.sources),
     table |-> None, summary_a |-> None, summary_b |-> None, warnings |-> <<>>,
     calls |-> calls, response |-> None]

HttpResponse(status, content) == [status |-> status, body |-> content]

\* a parsed cache entry that is returned with the cached flag unchanged
cached_response_unmarked(result) == result
\* lines 62-64: result.cached = True
cached_response(result) == [result EXCEPT !.cached = TRUE]

\* the query and the brand of the product the handler is at
query_of(h) == IF h.product = "a" THEN h.request.product_a ELSE h.request.product_b
brand_of(h) == IF h.product = "a" THEN h.request.brand_a ELSE h.request.brand_b

\* a collaborator that is not called
NotCalled == Outcome("not called", <<>>)

\* lines 35-68, from the arrival of the body to the first await: the handler,
\* the cache and the limiter afterwards
begin_compare(body) ==
    Bind(Handler(body, "done", "-", <<>>), LAMBDA h :
        IF ~valid_request(body)
        THEN [handler |-> [h EXCEPT !.response =
                               Some(HttpResponse(422, [detail |-> "sources"]))],
              cache |-> cache, limiter |-> rate_limiter]
        ELSE IF body.force_refresh
        THEN Bind(check_and_update(rate_limiter, h.cache_key, now), LAMBDA rl :
                 IF ~rl.allowed
                 THEN [handler |-> [h EXCEPT
                           !.calls = <<Call("check_and_update", "-", TRUE)>>,
                           !.response = Some(HttpResponse(429,
                               [detail |-> "Rate limit exceeded", wait_seconds |-> rl.remaining]))],
                       cache |-> cache, limiter |-> rl.limiter]
                 ELSE [handler |-> [h EXCEPT
                           !.pc = first_fetch, !.product = "a",
                           !.calls = <<Call("check_and_update", "-", TRUE),
                                       Call(first_fetch, "a", FALSE)>>],
                       cache |-> cache, limiter |-> rl.limiter])
        ELSE Bind(cache_get(cache, h.cache_key, now), LAMBDA got :
             Bind(IF got.value = None THEN None ELSE model_validate_json(got.value[1]),
                  LAMBDA result :
                 IF result # None
                 THEN [handler |-> [h EXCEPT
                           !.calls = <<Call("cache.get", "-", TRUE)>>,
                           !.response = Some(HttpResponse(200, cached_response(result[1])))],
                       cache |-> got.cache, limiter |-> rate_limiter]
                 ELSE [handler |-> [h EXCEPT
                           !.pc = first_fetch, !.product = "a",
                           !.calls = <<Call("cache.get", "-", TRUE),
                                       Call(first_fetch, "a", FALSE)>>],
                       cache |-> got.cache, limiter |-> rate_limiter])))

\* lines 71-87: aggregate_product_data has returned r for the handler's
\* product, and the handler goes on to its next await
after_aggregate(h, r) ==
    IF h.product = "a"
    THEN [h EXCEPT !.summary_a = Some(r.summary), !.warnings = @ \o r.warnings,
                   !.table = None, !.pc = first_fetch, !.product = "b",
                   !.calls = Append(Returned(@), Call(first_fetch, "b", FALSE))]
    ELSE [h EXCEPT !.summary_b = Some(r.summary), !.warnings = @ \o r.warnings,
                   !.table = None, !.pc = "enrich_product_summary", !.product = "a",
                   !.calls = Append(Returned(@), Call("enrich_product_summary", "a", FALSE))]

\* lines 91-101: the response of the handler whose summaries are enriched
build_response(h, request_id) ==
    CompareResponse(request_id, h.summary_a[1], h.summary_b[1],
                    calculate_comparison(h.summary_a[1], h.summary_b[1]),
                    h.warnings, FALSE)

\* the clock at the start of the process, and the steps it is moved by
Epoch == Seconds(1000)
TimeSteps == {1, Seconds(DefaultWindowSeconds), Seconds(CacheTtlSeconds)}
MaxAdvances == 2
MaxRequests == 2

\* the least number of steps that move the clock by e ticks
Advances(e) ==
    (e \div Seconds(CacheTtlSeconds))
        + ((e % Seconds(CacheTtlSeconds)) \div Seconds(DefaultWindowSeconds))
        + (e % Seconds(DefaultWindowSeconds))

\* the bodies posted to /compare
Bodies ==
    {CompareRequest(<<"N", "o", "n", "g">>, SINRAMYEON, <<"NONG", "SIM">>,
                    SINRAMYEON \o <<" ">> \o SET, <<"danawa">>, f) : f \in BOOLEAN}
    \cup
    {CompareRequest(<<"n", "o", "n", "g">>, SINRAMYEON, <<"NONG", "SIM">>,
                    SINRAMYEON \o <<" ">> \o SET, l, FALSE) :
        l \in {<<"danawa">>, <<>>, <<"11st", "danawa">>, <<"invalid_source">>}}

\* what the table and the site do for a handler
ApiTables ==
    { Outcome("raises", <<>>),
      Outcome("item", <<Offer(NONGSIM_SINRAMYEON, "u1", Some(4500), Some(450), Some(1000), Some("img"))>>) }
ApiSites ==
    { Outcome("page", <<Offer(NONGSIM_SINRAMYEON, "u2", Some(4500), Some(450), Some(1000), Some("img"))>>) }

InitApi ==
    /\ CompareIdle /\ NormalizeIdle /\ RatingIdle /\ AggregateIdle /\ CacheIdle
    /\ fuzz = TRUE
    /\ query = <<>> /\ brand = <<>>
    /\ threshold = DefaultThreshold /\ offers = <<>> /\ pc = "ready"
    /\ ms = None /\ best = None /\ ranked = <<>> /\ warnings = <<>>
    /\ IS_LAMBDA \in BOOLEAN
    /\ USE_DYNAMODB = TRUE
    /\ now = Epoch
    /\ cache = InMemoryCache(DefaultMaxSize, DefaultTtlSeconds)
    /\ rate_limiter = RateLimiter(DefaultWindowSeconds)
    /\ requests = <<>>
    /\ uuids = 0

apiRest == <<matchVars, compareVars, normalizeVars, ratingVars, environmentVars, aggregateVars,
            cacheVars>>

\* time passes
Advance(d) ==
    /\ Advances(now + d - Epoch) <= MaxAdvances
    /\ now' = now + d
    /\ UNCHANGED <<apiRest, cache, rate_limiter, requests, uuids>>

\* a body arrives: it is validated and the handler runs to its first await
CompareProducts(body) ==
    /\ Len(requests) < MaxRequests
    /\ \E r \in {begin_compare(body)} :
           /\ requests' = Append(requests, r.handler)
           /\ cache' = r.cache
           /\ rate_limiter' = r.limiter
    /\ UNCHANGED <<apiRest, now, uuids>>

\* The fetch handler i awaits returns: fetch_from_dynamodb with what the
\* table did, after which fetch_from_sources either returns or awaits
\* search_danawa; or search_danawa with what the site did.  When
\* fetch_from_sources returns, aggregate_product_data returns and the handler
\* runs to its next await.
FetchReturns(i, outcome) ==
    /\ requests[i].pc \in {"fetch_from_dynamodb", "search_danawa"}
    /\ outcome \in (IF requests[i].pc = "fetch_from_dynamodb" THEN ApiTables ELSE ApiSites)
    /\ \E h \in {requests[i]} :
       \E r \in {aggregate_product_data(
                     query_of(h), brand_of(h), h.request.sources,
                     IF h.pc = "fetch_from_dynamodb" THEN outcome
                     ELSE IF h.table = None THEN NotCalled ELSE h.table[1],
                     IF h.pc = "search_danawa" THEN outcome ELSE NotCalled)} :
           requests' = [requests EXCEPT ![i] =
               IF /\ h.pc = "fetch_from_dynamodb"
                  /\ \E k \in 1..Len(r.invoked) : r.invoked[k] = "danawa"
               THEN [h EXCEPT !.table = Some(outcome), !.pc = "search_danawa",
                              !.calls = Append(Returned(@),
                                               Call("search_danawa", h.product, FALSE))]
               ELSE after_aggregate(h, r)]
    /\ UNCHANGED <<apiRest, now, cache, rate_limiter, uuids>>

\* await enrich_product_summary(summary_a) returns to handler i
EnrichA(i, llm_result) ==
    /\ requests[i].pc = "enrich_product_summary" /\ requests[i].product = "a"
    /\ requests' = [requests EXCEPT ![i] =
           [@ EXCEPT !.summary_a = Some(enrich_product_summary(@[1], llm_result)),
                     !.product = "b",
                     !.calls = Append(Returned(@),
                                      Call("enrich_product_summary", "b", FALSE))]]
    /\ UNCHANGED <<apiRest, now, cache, rate_limiter, uuids>>

\* await enrich_product_summary(summary_b) returns to handler i, which
\* builds the response, stores it in the cache and returns it (lines 88-110)
EnrichB(i, llm_result) ==
    /\ requests[i].pc = "enrich_product_summary" /\ requests[i].product = "b"
    /\ \E h \in {[requests[i] EXCEPT
                     !.summary_b = Some(enrich_product_summary(@[1], llm_result))]} :
       \E response \in {build_response(h, uuids + 1)} :
           /\ requests' = [requests EXCEPT ![i] =
                  [h EXCEPT !.pc = "done", !.product = "-",
                            !.calls = Append(Returned(@), Call("cache.set", "-", TRUE)),
                            !.response = Some(HttpResponse(200, response))]]
           /\ cache' = cache_set(cache, h.cache_key, model_dump_json(response),
                                 Some(CacheTtlSeconds), now)
    /\ uuids' = uuids + 1
    /\ UNCHANGED <<apiRest, now, rate_limiter>>

NextApi ==
    \/ \E d \in TimeSteps : Advance(d)
    \/ \E body \in Bodies : CompareProducts(body)
    \/ \E i \in 1..Len(requests), outcome \in ApiTables \cup ApiSites : FetchReturns(i, outcome)
    \/ \E i \in 1..Len(requests), llm_result \in LlmResults : EnrichA(i, llm_result)
    \/ \E i \in 1..Len(requests), llm_result \in LlmResults : EnrichB(i, llm_result)

SpecApi == InitApi /\ [][NextApi]_vars

\* the calls of handler h that have not returned
Pending(h) == {k \in 1..Len(h.calls) : ~h.calls[k].returned}
HasCall(h, what) == \E k \in 1..Len(h.calls) : h.calls[k].call = what
Fetching(h) == h.pc \in {"fetch_from_dynamodb", "search_danawa"}

\* C17: the fetches of a request run concurrently: while a handler waits for
\* a source fetch of product A, it has started a fetch for product B.
C17_FetchesRunConcurrently ==
    \A i \in 1..Len(requests) :
        (Fetching(requests[i]) /\ requests[i].product = "a") =>
            \E k \in 1..Len(requests[i].calls) : requests[i].calls[k].product = "b"

\* C18: a request that names a source other than danawa is answered with
\* status 200 and at least one warning.
C18_UnknownSourceIsWarning ==
    \A i \in 1..Len(requests) :
        (/\ requests[i].pc = "done"
         /\ \E k \in 1..Len(requests[i].request.sources) :
                requests[i].request.sources[k] # "danawa") =>
            /\ requests[i].response[1].status = 200
            /\ requests[i].response[1].body.warnings # <<>>

\* the handler that the arrival of a body has added
Arrived == requests'[Len(requests')]

\* the cache holds an entry for the key that has not expired
Fresh(key) ==
    /\ DictGet(cache.entries, key) # None
    /\ now <= DictGet(cache.entries, key)[1].expires_at

\* the handler has answered 200 with the response whose JSON text is stored
\* under its key, marked as cached
AnsweredFromCache(h) ==
    /\ h.pc = "done"
    /\ h.response # None
    /\ h.response[1].status = 200
    /\ h.response[1].body.cached = TRUE
    /\ model_dump_json([h.response[1].body EXCEPT !.cached = FALSE])
           = DictGet(cache.entries, h.cache_key)[1].value

\* the response was computed by an aggregation: the handler has stored it
Computed(h) == h.pc = "done" /\ HasCall(h, "cache.set")

\* C20: a request without force_refresh that arrives while the cache holds an
\* unexpired entry for its key is answered with the stored response (the
\* request_id and the content of the request that computed it) and
\* cached = true, after the cache read only: no fetch, no enrichment, no
\* cache write, no new request_id.  A response that was computed has
\* cached = false.
C20_CacheHitShortCircuits ==
    [][ /\ (/\ Len(requests') = Len(requests) + 1
            /\ valid_request(Arrived.request)
            /\ ~Arrived.request.force_refresh
            /\ Fresh(Arrived.cache_key)) =>
               /\ AnsweredFromCache(Arrived)
               /\ Arrived.calls = <<Call("cache.get", "-", TRUE)>>
               /\ cache' = cache
               /\ uuids' = uuids
        /\ \A i \in 1..Len(requests') :
               Computed(requests'[i]) => requests'[i].response[1].body.cached = FALSE
      ]_vars

\* C20 witness: the first request was computed from the table's listing and
\* stored; the second, equal to it up to letter case, is answered from the
\* cache with the first one's request_id.
C20_Witness ==
    /\ Len(requests) = 2
    /\ Computed(requests[1])
    /\ requests[1].response[1].body.request_id = 1
    /\ requests[1].response[1].body.product_a.best_offer # None
    /\ requests[2].request # requests[1].request
    /\ requests[2].calls = <<Call("cache.get", "-", TRUE)>>
    /\ requests[2].response[1].status = 200
    /\ requests[2].response[1].body = [requests[1].response[1].body EXCEPT !.cached = TRUE]
    /\ uuids = 1


-----------------------------------------------------------------------------
(* POST /compare when the shared cache holds, under the key of the         *)
(* requests, a text that another writer has left there and that is not a   *)
(* CompareResponse.                                                        *)

MalformedPayloads ==
    { <<[key |-> "request_id", value |-> 0]>>,      \* JSON, required members missing
      <<[key |-> "error", value |-> "not json"]>> }

InitApiMalformed ==
    /\ CompareIdle /\ NormalizeIdle /\ RatingIdle /\ AggregateIdle /\ CacheIdle
    /\ fuzz = TRUE
    /\ query = <<>> /\ brand = <<>>
    /\ threshold = DefaultThreshold /\ offers = <<>> /\ pc = "ready"
    /\ ms = None /\ best = None /\ ranked = <<>> /\ warnings = <<>>
    /\ IS_LAMBDA = FALSE
    /\ USE_DYNAMODB = TRUE
    /\ now = Epoch
    /\ \E payload \in MalformedPayloads, body \in Bodies :
           /\ valid_request(body) /\ body.sources # <<>>
           /\ cache = cache_set(InMemoryCache(DefaultMaxSize, DefaultTtlSeconds),
                                make_cache_key(body.brand_a, body.product_a, body.brand_b,
                                               body.product_b, body.sources),
                                payload, Some(CacheTtlSeconds), Epoch)
    /\ rate_limiter = RateLimiter(DefaultWindowSeconds)
    /\ requests = <<>>
    /\ uuids = 0

SpecApiMalformed == InitApiMalformed /\ [][NextApi]_vars

\* the cache holds an unexpired entry for the key that is not a response
Malformed(key) ==
    /\ Fresh(key)
    /\ DictGet(cache.entries, key)[1].value \in MalformedPayloads

\* handler i ends in this step
Ends(i) == requests[i].pc # "done" /\ requests'[i].pc = "done"

\* C23: a request without force_refresh that finds a malformed payload under
\* its key does not fail: it leaves the cache as it is and starts the
\* aggregation; and a request without force_refresh that ends after the
\* aggregation is answered 200 with a new request_id and cached = false,
\* and its serialized response is then the entry of its key.
C23_MalformedPayloadIsMiss ==
    [][ /\ (/\ Len(requests') = Len(requests) + 1
            /\ valid_request(Arrived.request)
            /\ ~Arrived.request.force_refresh
            /\ Malformed(Arrived.cache_key)) =>
               /\ Arrived.response = None
               /\ Arrived.calls = <<Call("cache.get", "-", TRUE), Call(first_fetch, "a", FALSE)>>
               /\ cache' = cache
        /\ \A i \in 1..Len(requests) :
               (Ends(i) /\ ~requests[i].request.force_refresh) =>
                   /\ Computed(requests'[i])
                   /\ requests'[i].response[1].status = 200
                   /\ requests'[i].response[1].body.cached = FALSE
                   /\ requests'[i].response[1].body.request_id = uuids + 1
                   /\ DictGet(cache'.entries, requests[i].cache_key)[1].value
                          = model_dump_json(requests'[i].response[1].body)
                   /\ ~Malformed(requests[i].cache_key)'
      ]_vars

\* C23 witness: the one request found the malformed payload, fetched the
\* listing and was answered with it; the entry of its key is its response.
C23_Witness ==
    /\ Len(requests) = 1
    /\ ~requests[1].request.force_refresh
    /\ Computed(requests[1])
    /\ requests[1].calls[1] = Call("cache.get", "-", TRUE)
    /\ requests[1].response[1].status = 200
    /\ requests[1].response[1].body.cached = FALSE
    /\ requests[1].response[1].body.product_a.best_offer # None
    /\ Len(cache.entries) = 1
    /\ model_validate_json(cache.entries[1].value.value) = Some(requests[1].response[1].body)


\* a force refresh for this key was allowed less than the window ago
InWindow(key) ==
    /\ DictGet(rate_limiter.last_refresh, key) # None
    /\ now - DictGet(rate_limiter.last_refresh, key)[1] < Seconds(rate_limiter.window_seconds)

\* C28: a force-refresh request that arrives within the window of its key is
\* answered 429 at once: it makes no fetch and no other call, and leaves
\* the cache and the limiter, with the timestamp of the key, as they were.
C28_DeniedForceRefreshChangesNothing ==
    [][(/\ Len(requests') = Len(requests) + 1
        /\ valid_request(Arrived.request)
        /\ Arrived.request.force_refresh
        /\ InWindow(Arrived.cache_key)) =>
           /\ Arrived.pc = "done"
           /\ Arrived.response # None
           /\ Arrived.response[1].status = 429
           /\ Arrived.calls = <<Call("check_and_update", "-", TRUE)>>
           /\ cache' = cache
           /\ rate_limiter' = rate_limiter
           /\ uuids' = uuids
      ]_vars

\* C28 witness: the first force refresh was allowed, computed and stored;
\* the second, half a second later or more, got 429 and a wait below the
\* window, and the timestamp of the key is still that of the first.
C28_Witness ==
    /\ Len(requests) = 2
    /\ requests[1].request.force_refresh /\ Computed(requests[1])
    /\ requests[2].response # None
    /\ requests[2].response[1].status = 429
    /\ requests[2].response[1].body.wait_seconds < rate_limiter.window_seconds
    /\ requests[2].calls = <<Call("check_and_update", "-", TRUE)>>
    /\ rate_limiter.last_refresh = <<[key |-> requests[1].cache_key, value |-> Epoch]>>
    /\ now > Epoch
    /\ Fresh(requests[1].cache_key)

\* the force-refresh request was allowed
AllowedForce(h) ==
    /\ h.request.force_refresh
    /\ valid_request(h.request)
    /\ ~(h.response # None /\ h.response[1].status = 429)

\* C29: an allowed force refresh makes no cache read and, when it is done,
\* has run the aggregation and stored its response; and unless a request
\* that arrived after it has stored a response for the same key, the cache
\* holds, until the entry expires, the response of the force refresh, which
\* is what the next request without force_refresh reads.
C29_ForceRefreshBypassesCache ==
    \A j \in 1..Len(requests) :
        AllowedForce(requests[j]) =>
            /\ ~HasCall(requests[j], "cache.get")
            /\ requests[j].pc = "done" =>
                   /\ Computed(requests[j])
                   /\ requests[j].response[1].status = 200
                   /\ requests[j].response[1].body.cached = FALSE
                   /\ (/\ Fresh(requests[j].cache_key)
                       /\ \A k \in (j + 1)..Len(requests) :
                              requests[k].cache_key = requests[j].cache_key
                                  => ~Computed(requests[k])) =>
                          DictGet(cache.entries, requests[j].cache_key)[1].value
                              = model_dump_json(requests[j].response[1].body)


-----------------------------------------------------------------------------
(* make_cache_key, called for two requests that are equal up to the case   *)
(* of their letters and the order of their sources.                        *)

KeyArgs(brand_a, prod_a, brand_b, prod_b, sources) ==
    [brand_a |-> brand_a, product_a |-> prod_a, brand_b |-> brand_b,
     product_b |-> prod_b, sources |-> sources]

\* the strings got from s by changing the case of some of its letters
CaseChanges(s) ==
    {t \in [1..Len(s) -> UNION {{s[i], UpperChar(s[i]), LowerChar(s[i])} : i \in 1..Len(s)}] :
        \A i \in 1..Len(s) : t[i] \in {s[i], UpperChar(s[i]), LowerChar(s[i])}}

\* the lists got from l by reordering it
Reorderings(l) ==
    {[i \in 1..Len(l) |-> l[p[i]]] : p \in Permutations(1..Len(l))}

KeyRequests ==
    {KeyArgs(ba, pa, <<"N", "o">>, <<"JIN">>, srcs) :
        ba \in {<<"N", "o">>, <<"NONG", "SIM">>},
        pa \in {<<"D", "micro", "g">>, SINRAMYEON},      \* "Dµg", "신라면"
        srcs \in {<<"danawa">>, <<"11st", "danawa">>, <<"danawa", "11st", "danawa">>}}

EqualUpToCaseAndOrder(r) ==
    {KeyArgs(ba, pa, bb, pb, srcs) :
        ba \in CaseChanges(r.brand_a), pa \in CaseChanges(r.product_a),
        bb \in CaseChanges(r.brand_b), pb \in CaseChanges(r.product_b),
        srcs \in Reorderings(r.sources)}

InitKey ==
    /\ MatchIdle /\ CompareIdle /\ NormalizeIdle /\ RatingIdle
    /\ EnvironmentIdle /\ AggregateIdle /\ ApiIdle
    /\ \E r \in KeyRequests : \E r2 \in EqualUpToCaseAndOrder(r) : key_args = <<r, r2>>
    /\ cache_keys = None
    /\ threads = <<>>

MakeCacheKey ==
    /\ cache_keys = None
    /\ cache_keys' = Some([i \in 1..2 |->
                              make_cache_key(key_args[i].brand_a, key_args[i].product_a,
                                             key_args[i].brand_b, key_args[i].product_b,
                                             key_args[i].sources)])
    /\ UNCHANGED <<matchVars, compareVars, normalizeVars, ratingVars, environmentVars,
                   aggregateVars, apiVars, key_args, threads>>

NextKey == MakeCacheKey
SpecKey == InitKey /\ [][NextKey]_vars

\* C22: two requests that are equal up to the case of the letters of their
\* brands and products and up to the order of their sources get the same
\* cache key.
C22_KeyIgnoresCaseAndOrder ==
    cache_keys # None => cache_keys[1][1] = cache_keys[1][2]


-----------------------------------------------------------------------------
(* cache.py called from threads.  A thread runs one call at a time; what a *)
(* method does under its lock is one step, what it does before taking the  *)
(* lock is another, and the clock and the other threads move in between.   *)

Threads == {1, 2}
MaxCalls == 2

\* began: the clock when the call started; local: the value the call
\* computed before the lock; calls: the number of calls that returned;
\* returned: a record of each call that returned
IdleThread ==
    [pc |-> "idle", call |-> None, began |-> 0, local |-> 0, calls |-> 0, returned |-> <<>>]

Idle(t) == threads[t].pc = "idle" /\ threads[t].calls < MaxCalls

Starts(t, call, position, local) ==
    /\ Idle(t)
    /\ threads' = [threads EXCEPT ![t] = [@ EXCEPT !.pc = position, !.call = Some(call),
                                                   !.began = now, !.local = local]]

\* the calls that returned, <<thread, number>>, and their records
ReturnedCalls == {c \in Threads \X (1..MaxCalls) : c[2] <= Len(threads[c[1]].returned)}
Record(c) == threads[c[1]].returned[c[2]]

\* the call of thread t returns; every record is kept
Returns(t, record) ==
    threads' = [threads EXCEPT ![t] =
                   [@ EXCEPT !.pc = "idle", !.call = None, !.began = 0, !.local = 0,
                             !.calls = @ + 1, !.returned = Append(@, record)]]

\* the call of thread t returns; the record of the last call of all is kept
ReturnsLast(t, record) ==
    threads' = [u \in Threads |->
                   IF u = t
                   THEN [threads[u] EXCEPT !.pc = "idle", !.call = None, !.began = 0,
                                           !.local = 0, !.calls = @ + 1,
                                           !.returned = <<record>>]
                   ELSE [threads[u] EXCEPT !.returned = <<>>]]

threadRest == <<matchVars, compareVars, normalizeVars, ratingVars, environmentVars,
                aggregateVars, requests, uuids, key_args, cache_keys>>

InitThreads ==
    /\ MatchIdle /\ CompareIdle /\ NormalizeIdle /\ RatingIdle
    /\ EnvironmentIdle /\ AggregateIdle
    /\ now = Epoch
    /\ requests = <<>> /\ uuids = 0
    /\ key_args = <<>> /\ cache_keys = <<>>
    /\ threads = [t \in Threads |-> IdleThread]

-----------------------------------------------------------------------------
(* RateLimiter.check_and_update from threads.                              *)

LimiterKeys == {"k1", "k2"}

InitLimiter ==
    /\ InitThreads
    /\ cache = <<>>
    /\ rate_limiter = RateLimiter(DefaultWindowSeconds)

\* check_and_update(key) reads the clock
CheckBegins(t, key) ==
    /\ Starts(t, [op |-> "check_and_update", key |-> key], "check_and_update", now)
    /\ UNCHANGED <<threadRest, now, cache, rate_limiter>>

\* check_and_update takes the lock, decides and returns
CheckDecides(t) ==
    /\ threads[t].pc = "check_and_update"
    /\ \E r \in {check_and_update(rate_limiter, threads[t].call[1].key, threads[t].local)} :
           /\ rate_limiter' = r.limiter
           /\ Returns(t, [call |-> threads[t].call[1], began |-> threads[t].began,
                          read |-> DictGet(rate_limiter.last_refresh, threads[t].call[1].key),
                          result |-> [allowed |-> r.allowed, remaining |-> r.remaining]])
    /\ UNCHANGED <<threadRest, now, cache>>

NextLimiter ==
    \/ \E d \in TimeSteps : Advance(d)
    \/ \E t \in Threads, key \in LimiterKeys : CheckBegins(t, key)
    \/ \E t \in Threads : CheckDecides(t)

SpecLimiter == InitLimiter /\ [][NextLimiter]_vars

AllowedCalls(key) ==
    {c \in ReturnedCalls : Record(c).call.key = key /\ Record(c).result.allowed}

\* C21: any two allowed calls for one key are at least window_seconds
\* apart; a call made less than window_seconds after the last allowed call
\* for its key is denied with remaining = floor(window_seconds - elapsed),
\* which lies between 0 and window_seconds; and the timestamp of a key is
\* that of the latest allowed call for that key, whatever was called for
\* other keys.
C21_FixedWindowPerKey ==
    LET window == Seconds(rate_limiter.window_seconds)
    IN  /\ \A key \in LimiterKeys : \A c, d \in AllowedCalls(key) :
               c # d => (Record(c).began - Record(d).began >= window
                            \/ Record(d).began - Record(c).began >= window)
        /\ \A c \in ReturnedCalls :
               LET r == Record(c)
                   elapsed == r.began - (IF r.read = None THEN 0 ELSE r.read[1])
               IN  elapsed < window =>
                       /\ ~r.result.allowed
                       /\ r.result.remaining = (window - elapsed) \div TicksPerSecond
                       /\ r.result.remaining >= 0
                       /\ r.result.remaining <= rate_limiter.window_seconds
        /\ \A key \in LimiterKeys :
               DictGet(rate_limiter.last_refresh, key) =
                   IF AllowedCalls(key) = {} THEN None
                   ELSE Some(SetMax({Record(c).began : c \in AllowedCalls(key)}))


-----------------------------------------------------------------------------
(* InMemoryCache.set, get and clear from threads.                          *)

CacheMaxSize == 2
CacheKeys == {"a", "b", "c"}
Ttls == {None, Some(0)}
CacheTimeSteps == {1, Seconds(DefaultTtlSeconds)}

\* the keys of the dict
Keys(entries) == {entries[i].key : i \in 1..Len(entries)}

InitCache ==
    /\ InitThreads
    /\ \E max_size \in 1..CacheMaxSize : cache = InMemoryCache(max_size, DefaultTtlSeconds)
    /\ rate_limiter = <<>>

\* set(key, value, ttl) computes expires_at; the value names the call
SetBegins(t, key, ttl) ==
    /\ Starts(t, [op |-> "set", key |-> key, ttl |-> ttl,
                  value |-> [began |-> now, ttl |-> ttl]],
              "set", set_expires_at(cache, ttl, now))
    /\ UNCHANGED <<threadRest, now, cache, rate_limiter>>

\* what is kept of a call of the cache: the call without its value, and
\* its result
CacheCall(op, key, result) == [call |-> [op |-> op, key |-> key], result |-> result]

\* set takes the lock, evicts, stores and returns
SetStores(t) ==
    /\ threads[t].pc = "set"
    /\ cache' = set_locked(cache, threads[t].call[1].key, threads[t].call[1].value,
                           threads[t].local)
    /\ ReturnsLast(t, CacheCall("set", threads[t].call[1].key, None))
    /\ UNCHANGED <<threadRest, now, rate_limiter>>

\* get(key), all of it under the lock
Get(t, key) ==
    /\ Idle(t)
    /\ \E r \in {cache_get(cache, key, now)} :
           /\ cache' = r.cache
           /\ ReturnsLast(t, CacheCall("get", key, r.value))
    /\ UNCHANGED <<threadRest, now, rate_limiter>>

\* clear(), all of it under the lock
Clear(t) ==
    /\ Idle(t)
    /\ cache' = cache_clear(cache)
    /\ ReturnsLast(t, CacheCall("clear", "", None))
    /\ UNCHANGED <<threadRest, now, rate_limiter>>

NextCache ==
    \/ \E d \in CacheTimeSteps : Advance(d)
    \/ \E t \in Threads, key \in CacheKeys, ttl \in Ttls : SetBegins(t, key, ttl)
    \/ \E t \in Threads : SetStores(t)
    \/ \E t \in Threads, key \in CacheKeys : Get(t, key)
    \/ \E t \in Threads : Clear(t)

SpecCache == InitCache /\ [][NextCache]_vars

\* thread t returns from set(key, ...)
SetReturns(t, key) ==
    /\ threads[t].pc = "set" /\ threads'[t].pc = "idle"
    /\ threads[t].call[1].key = key

\* C26: the cache never holds more than max_size entries, and a set of a
\* key that is present removes no entry.
C26_SizeBounded ==
    [][/\ Len(cache.entries) <= cache.max_size
       /\ Len(cache'.entries) <= cache'.max_size
       /\ \A t \in Threads, key \in CacheKeys :
              (SetReturns(t, key) /\ key \in Keys(cache.entries)) =>
                  Keys(cache'.entries) = Keys(cache.entries)]_vars

\* C26 witness: four calls returned, the last a set of "b", which was in
\* the full cache of two entries before "c" and has kept its place.
C26_Witness ==
    /\ cache.max_size = 2
    /\ Len(cache.entries) = 2
    /\ cache.entries[1].key = "b" /\ cache.entries[2].key = "c"
    /\ threads[1].calls = 2 /\ threads[2].calls = 2
    /\ \E t \in Threads : threads[t].returned = <<CacheCall("set", "b", None)>>


\* thread t returns from get(key), and what it returns
GetReturns(t, key) ==
    /\ threads[t].pc = "idle"
    /\ threads'[t].calls = threads[t].calls + 1
    /\ threads'[t].returned[1].call = [op |-> "get", key |-> key]
GetResult(t) == threads'[t].returned[1].result

\* key was used by the call that returned last: set, or read by a get
LastUsed(key) ==
    \E u \in Threads :
        /\ threads[u].returned # <<>>
        /\ threads[u].returned[1].call.key = key
        /\ \/ threads[u].returned[1].call.op = "set"
           \/ threads[u].returned[1].call.op = "get" /\ threads[u].returned[1].result # None

\* C24: a set that evicts an entry evicts the least recently used one: never
\* the entry that the last call set or read, when the cache holds another.
C24_EvictsLeastRecentlyUsed ==
    [][\A t \in Threads, key \in CacheKeys :
           SetReturns(t, key) =>
               \A e \in Keys(cache.entries) \ Keys(cache'.entries) :
                   Keys(cache.entries) # {e} => ~LastUsed(e)]_vars

\* the expiry of a stored value: the time of its set plus the ttl of the
\* call, or plus the default TTL when the call gave none
ExpiryOf(value) ==
    value.began + Seconds(IF value.ttl = None THEN cache.ttl_seconds ELSE value.ttl[1])

\* C27: get returns a value only up to the expiry of the set that stored it;
\* past the expiry it returns None and removes the entry.
C27_NeverReturnsExpired ==
    [][\A t \in Threads, key \in CacheKeys :
           GetReturns(t, key) =>
               /\ GetResult(t) # None => now <= ExpiryOf(GetResult(t)[1])
               /\ \A i \in 1..Len(cache.entries) :
                      (cache.entries[i].key = key
                           /\ now > ExpiryOf(cache.entries[i].value.value)) =>
                          /\ GetResult(t) = None
                          /\ key \notin Keys(cache'.entries)]_vars

=============================================================================
